---- MODULE Spec2Model ----
(***************************************************************************)
(* The agentic loop of code-agent-ide: AgentLoopService.executeAgentLoop   *)
(* and OpenAIService.processQuery / continueWithPermission, both driving a *)
(* ConversationManager.                                                    *)
(***************************************************************************)
EXTENDS Integers, Sequences, FiniteSets, TLC

\* ---------------------------------------------------------------- bounds
\* user queries plus tool-call batches in one behaviour
MaxExchanges == 3
\* User queries, replies and tool-call batches of one long conversation.
MaxTurns == 6

\* ------------------------------------------------------ program constants
MAX_ITERATIONS == 10
MAX_PAYLOAD_SIZE == 100000
MAX_MESSAGES == 12
maxHistoryLength == 10
BREAKING_CHANGE_TOOLS == {"create_file", "update_file", "create_directory", "run_command"}

\* ------------------------------------------------------------- messages
NoId == 0

ConversationMessage(role, content, tool_calls, tool_call_id) ==
  [role |-> role, content |-> content, tool_calls |-> tool_calls, tool_call_id |-> tool_call_id]

UserMessage(content) == ConversationMessage("user", content, <<>>, NoId)
SystemMessage(content) == ConversationMessage("system", content, <<>>, NoId)
AssistantMessage(content, tool_calls) == ConversationMessage("assistant", content, tool_calls, NoId)
ToolMessage(tool_call_id, content) == ConversationMessage("tool", content, <<>>, tool_call_id)

\* One tool call of a provider response: its id and its function name.
ToolCall(id, name) == [id |-> id, name |-> name]

\* The ids the provider gives to the calls of one batch of names.
ToolCallsOf(names, firstId) == [i \in 1..Len(names) |-> ToolCall(firstId + i - 1, names[i])]

CallIds(tool_calls) == {tool_calls[i].id : i \in 1..Len(tool_calls)}

\* Texts (message contents, error messages, responses) are sequences of
\* fragments; concatenation is \o and String.includes is Includes.
Includes(text, fragment) == \E i \in 1..Len(text) : text[i] = fragment

\* The length of one fragment: "bigquery" stands for a text longer than
\* MAX_PAYLOAD_SIZE characters, every other fragment for a short one.
FragmentLength(fragment) == IF fragment = "bigquery" THEN MAX_PAYLOAD_SIZE + 1 ELSE 20

RECURSIVE ContentLength(_)
ContentLength(content) ==
  IF content = <<>> THEN 0
  ELSE FragmentLength(Head(content)) + ContentLength(Tail(content))

\* null, for lastError and for an absent content
Null == <<>>

\* ------------------------------------------------- ConversationManager
minimumToKeep == (maxHistoryLength \div 2) * 2

\* ScanRemovalPoint that takes every index for a removal point, whatever
\* the role of the message that would become the oldest.
RECURSIVE ScanRemovalPointAnyRole(_, _, _, _)
ScanRemovalPointAnyRole(h, i, safeRemovalPoint, excessMessages) ==
  IF ~(i < Len(h) - minimumToKeep) THEN safeRemovalPoint
  ELSE IF i + 1 >= excessMessages THEN i + 1
       ELSE ScanRemovalPointAnyRole(h, i + 1, i + 1, excessMessages)

\* ScanRemovalPoint that scans the whole history, the minimumToKeep most
\* recent messages included.
RECURSIVE ScanRemovalPointWholeHistory(_, _, _, _)
ScanRemovalPointWholeHistory(h, i, safeRemovalPoint, excessMessages) ==
  IF ~(i < Len(h)) THEN safeRemovalPoint
  ELSE LET p == IF i + 1 < Len(h) /\ h[i + 2].role = "user" THEN i + 1 ELSE safeRemovalPoint
       IN IF p >= excessMessages THEN p
          ELSE ScanRemovalPointWholeHistory(h, i + 1, p, excessMessages)

\* The for loop of safelyTruncateConversationHistory, from index i (0-based)
\* with the removal point found so far.
RECURSIVE ScanRemovalPoint(_, _, _, _)
ScanRemovalPoint(h, i, safeRemovalPoint, excessMessages) ==
  IF ~(i < Len(h) - minimumToKeep) THEN safeRemovalPoint
  ELSE LET p == IF i + 1 < Len(h) /\ h[i + 2].role = "user" THEN i + 1 ELSE safeRemovalPoint
       IN IF p >= excessMessages THEN p
          ELSE ScanRemovalPoint(h, i + 1, p, excessMessages)

safelyTruncateConversationHistory(h) ==
  IF Len(h) <= maxHistoryLength THEN h
  ELSE LET excessMessages == Len(h) - maxHistoryLength
           safeRemovalPoint == ScanRemovalPoint(h, 0, 0, excessMessages)
       IN IF safeRemovalPoint > 0 THEN SubSeq(h, safeRemovalPoint + 1, Len(h)) ELSE h

addToConversationHistory(h, message) == safelyTruncateConversationHistory(Append(h, message))

\* msgs.forEach(msg => addToConversationHistory(msg)) on the history h.
RECURSIVE addAllToConversationHistory(_, _)
addAllToConversationHistory(h, msgs) ==
  IF msgs = <<>> THEN h
  ELSE addAllToConversationHistory(addToConversationHistory(h, Head(msgs)), Tail(msgs))

clearConversationHistory == <<>>

\* HasMatchingToolCall that looks through the whole history, later messages
\* included.
HasMatchingToolCallAnywhere(h, i) ==
  \E j \in 1..Len(h) :
    /\ h[j].role = "assistant"
    /\ h[i].tool_call_id \in CallIds(h[j].tool_calls)

\* A tool-role message at position i has a matching call in an earlier
\* assistant message.
HasMatchingToolCall(h, i) ==
  \E j \in 1..(i - 1) :
    /\ h[j].role = "assistant"
    /\ h[i].tool_call_id \in CallIds(h[j].tool_calls)

sanitizeToolMessages(h) ==
  LET keep(i) == ~(h[i].role = "tool" /\ ~HasMatchingToolCall(h, i))
      F[i \in 0..Len(h)] ==
        IF i = 0 THEN <<>>
        ELSE IF keep(i) THEN Append(F[i - 1], h[i]) ELSE F[i - 1]
  IN F[Len(h)]

\* The number sanitizeToolMessages returns: the messages it removed.
SanitizedCount(h) ==
  Cardinality({i \in 1..Len(h) : h[i].role = "tool" /\ ~HasMatchingToolCall(h, i)})

\* ------------------------------------------------------ MessageFormatter
systemPrompt == <<"systemPrompt">>

ErrorNotice(err) ==
  UserMessage(<<"There was an error in the previous step: ">> \o err
              \o <<". Please handle this gracefully and adjust your approach.">>)

formatMessages(prompt, h, err) ==
  <<SystemMessage(prompt)>> \o (IF err # Null THEN <<ErrorNotice(err)>> ELSE <<>>) \o h

RECURSIVE ToolCallsLength(_)
ToolCallsLength(tool_calls) ==
  IF tool_calls = <<>> THEN 0
  ELSE 20 + ToolCallsLength(Tail(tool_calls))

RECURSIVE PayloadSize(_)
PayloadSize(h) ==
  IF h = <<>> THEN 0
  ELSE ContentLength(Head(h).content) + ToolCallsLength(Head(h).tool_calls) + PayloadSize(Tail(h))

shouldSummarizeHistory(h, maxPayloadSize, maxMessages) ==
  PayloadSize(h) > maxPayloadSize \/ Len(h) > maxMessages

\* conversationHistory.slice(-2) and conversationHistory.slice(0, -2)
LatestMessages(h) == SubSeq(h, IF Len(h) > 2 THEN Len(h) - 1 ELSE 1, Len(h))
\* OlderMessages that leaves out only the last message.
OlderMessagesButLast(h) == SubSeq(h, 1, IF Len(h) > 1 THEN Len(h) - 1 ELSE 0)
OlderMessages(h) == SubSeq(h, 1, IF Len(h) > 2 THEN Len(h) - 2 ELSE 0)

\* The file references summarizeConversationHistory collects: the matches of
\* filePathPattern in the contents that hold a '.' and do not end with '/'.
\* "/src/app.ts" is the one fragment of the model's texts that is a path.
fileReferences(h) ==
  UNION {{h[i].content[j] : j \in 1..Len(h[i].content)} : i \in 1..Len(h)} \cap {"/src/app.ts"}

\* FallbackSummary that counts the tool messages as assistant messages.
FallbackSummaryByAuthor(h) ==
  LET count(roles) == ToString(Cardinality({i \in 1..Len(h) : h[i].role \in roles}))
  IN <<"Conversation summary (fallback): ", count({"user"}), " user messages, ",
       count({"assistant", "tool"}), " assistant messages, ", count({"tool"}),
       " tool interactions.">>

\* fallbackSummary, the text built when the provider call of the summary fails
FallbackSummary(h) ==
  LET count(roles) == ToString(Cardinality({i \in 1..Len(h) : h[i].role \in roles}))
  IN <<"Conversation summary (fallback): ", count({"user"}), " user messages, ",
       count({"assistant"}), " assistant messages, ", count({"tool"}),
       " tool interactions.">>

\* The SummarizedHistoryMessage summarizeConversationHistory returns for the
\* history h: with the provider's summary, or with the fallback text when the
\* provider call fails (timestamp left out).
summarizeConversationHistory(h, providerOk) ==
  [role |-> "system",
   content |-> IF h = <<>> THEN <<"No conversation history yet.">>
               ELSE IF providerOk THEN <<"summary">>
               ELSE FallbackSummary(h),
   tool_calls |-> <<>>, tool_call_id |-> NoId,
   summary_type |-> "conversation_history",
   file_references |-> fileReferences(h)]

\* typeof summary === 'string' ? summary : summary.content || JSON.stringify(summary)
SummaryContent(summary) ==
  IF summary.content # <<>> THEN summary.content ELSE <<"JSON.stringify(summary)">>

\* ------------------------------------------------------ ResponseGenerator
generateFinalResponse(message) == message.content

\* ---------------------------------------------------- ToolCallProcessor
\* What the Tool Runtime does with one dispatched call.
ToolOutcomes == {"ok", "throw"}

ToolResult(tool_call_id, output, success) ==
  [tool_call_id |-> tool_call_id, output |-> output, success |-> success]

\* One dispatch: the tool's text, or its exception converted to a failed result.
DispatchResult(call, outcome) ==
  IF outcome = "ok" THEN ToolResult(call.id, <<"output">>, TRUE)
  ELSE ToolResult(call.id, <<"tool error">>, FALSE)

HasBreaking(calls, breakingNames) == \E i \in 1..Len(calls) : calls[i].name \in breakingNames

\* processToolCalls for a batch that needs no confirmation: one result per
\* call, in the order of the calls.
processToolCalls(calls, outcomes) == [i \in 1..Len(calls) |-> DispatchResult(calls[i], outcomes[i])]

\* results.forEach(result => addToConversationHistory({role: 'tool', ...}))
ResultMessages(rs) == [i \in 1..Len(rs) |-> ToolMessage(rs[i].tool_call_id, rs[i].output)]

\* results.find(result => !result.success)
FailedToolCall(rs) ==
  IF \E i \in 1..Len(rs) : ~rs[i].success
  THEN LET k == CHOOSE i \in 1..Len(rs) : ~rs[i].success /\ \A j \in 1..(i - 1) : rs[j].success
       IN <<rs[k]>>
  ELSE <<>>

\* ------------------------------------------------------------- provider
\* A short query, and a long one that names a file.
Queries == {<<"query">>, <<"bigquery", "/src/app.ts">>}

\* The batches of tool names a completion may carry.
Batches == { <<"view_file">>, <<"view_file", "view_file">>, <<"create_file">>,
             <<"done">>, <<"view_file", "done">> }

ValidationErrorMessages == { <<"400 Invalid parameter">>,
                             <<"messages with role 'tool' must be a response">>,
                             <<"invalid_request_error">> }
TransientErrorMessages == { <<"429 rate limit exceeded">> }
ProviderErrorMessages == ValidationErrorMessages \cup TransientErrorMessages

\* IsValidationError without the test for 'invalid_request_error'.
IsValidationErrorNarrow(message) ==
  \/ Includes(message, "400 Invalid parameter")
  \/ Includes(message, "messages with role 'tool' must be a response")

\* The test of the provider-call handler of executeAgentLoop.
IsValidationError(message) ==
  \/ Includes(message, "400 Invalid parameter")
  \/ Includes(message, "messages with role 'tool' must be a response")
  \/ Includes(message, "invalid_request_error")

\* assistantMessage.tool_calls.find(toolCall => toolCall.function.name === 'done')
HasDoneToolCall(tool_calls) == \E i \in 1..Len(tool_calls) : tool_calls[i].name = "done"
DoneToolCall(tool_calls) ==
  tool_calls[CHOOSE i \in 1..Len(tool_calls) :
               tool_calls[i].name = "done" /\ \A j \in 1..(i - 1) : tool_calls[j].name # "done"]

\* DoneBatch handing over the whole batch.
DoneBatchWithSiblings(tool_calls) == tool_calls

\* The batch executeAgentLoop hands to processToolCalls when 'done' is called.
DoneBatch(tool_calls) == <<DoneToolCall(tool_calls)>>

\* An assistant message with a non-empty tool_calls.
CarriesCalls(m) == m.role = "assistant" /\ Len(m.tool_calls) > 0

\* ---------------------------------------------------------------- state
VARIABLES
  service,              \* the service object under study
  conversationHistory,  \* ConversationManager.conversationHistory
  pc,                   \* where the invocation in flight is suspended
  outcome,              \* how the last invocation ended: "none", "returned", "threw"
  iterations, lastError, loopComplete, forceExitLoop, finalResponse,
  messages,             \* the payload of the provider call
  assistantMessage,     \* the provider's message of this iteration
  originalHistory, latestMessages,   \* locals of the summarization branch
  results,              \* the results processToolCalls returned
  toolIndex,            \* position in the batch of the tool call awaited
  permissionGranted,    \* the local of continueWithPermission
  nextId,               \* the id of the provider's next tool call
  exchanges,            \* user queries and tool-call batches the behaviour may still take
  calls,                \* provider calls made so far by the invocation in flight
  dispatched,           \* the tool calls handed to the Tool Runtime so far
  granted,              \* the tool calls of batches the user has confirmed
  failedWith,           \* message of the error the latest provider call raised, or Null
  answered,             \* the provider returned a message with no tool calls
  doneResult,           \* "none", or the outcome of the dispatched done call
  toolFailure,          \* error text of the latest failed tool of a regular batch, or Null
  redispatched,         \* the tool calls handed to the Tool Runtime more than once
  sanitizedCount,       \* <<n>> when sanitizeToolMessages was called and returned n, or Null
  posted,               \* sendMessage commands the webview posted, not yet handled
  toWebview,            \* commands the ChatView posted, not yet received by the webview
  inputDisabled,        \* userInput.disabled and sendButton.disabled of the webview
  messageHistory,       \* ChatView.messageHistory, by role
  inFlight,             \* processQuery invocations suspended at an await
  unreported,           \* an error was recorded since the latest payload was built
  assistantMessageBuffer,  \* the buffer executeStreamingAgentLoop fills from the deltas
  streamedContent,      \* the content deltas forwarded so far
  received              \* the tool-call chunks of the stream so far, in arrival order

locals == <<iterations, lastError, loopComplete, forceExitLoop, finalResponse,
            messages, assistantMessage, originalHistory, latestMessages, results>>
observers == <<calls, dispatched, granted, failedWith, answered, doneResult,
               toolFailure, redispatched>>
chat == <<posted, toWebview, inputDisabled, messageHistory, inFlight>>
stream == <<assistantMessageBuffer, streamedContent, received>>
extras == <<sanitizedCount, chat, stream>>
vars == <<service, conversationHistory, pc, outcome, locals, toolIndex, permissionGranted,
          nextId, exchanges, observers, extras, unreported>>

NoMessage == AssistantMessage(Null, <<>>)

InitCommon ==
  /\ conversationHistory = <<>>
  /\ pc = "idle"
  /\ outcome = "none"
  /\ iterations = 0
  /\ lastError = Null
  /\ loopComplete = FALSE
  /\ forceExitLoop = FALSE
  /\ finalResponse = <<>>
  /\ messages = <<>>
  /\ assistantMessage = NoMessage
  /\ originalHistory = <<>>
  /\ latestMessages = <<>>
  /\ results = <<>>
  /\ toolIndex = 0
  /\ permissionGranted = FALSE
  /\ nextId = 1
  /\ calls = 0
  /\ dispatched = {}
  /\ granted = {}
  /\ failedWith = Null
  /\ answered = FALSE
  /\ doneResult = "none"
  /\ toolFailure = Null
  /\ redispatched = {}
  /\ sanitizedCount = Null
  /\ posted = 0
  /\ toWebview = <<>>
  /\ inputDisabled = FALSE
  /\ messageHistory = <<>>
  /\ inFlight = 0
  /\ unreported = FALSE
  /\ assistantMessageBuffer = [content |-> <<>>, tool_calls |-> <<>>]
  /\ streamedContent = <<>>
  /\ received = <<>>

\* ------------------------------------- AgentLoopService.executeAgentLoop
ApiErrorApology ==
  <<"I encountered an API error while processing your request. The conversation has been reset. Please try your question again with simpler instructions.">>

\* GiveUpResponse that never cites the error.
GiveUpResponseGeneric(err) ==
  <<"I'm sorry, but I encountered an issue while processing your request. ">>
  \o <<"Please try again with a clearer or simpler query.">>

GiveUpResponse(err) ==
  <<"I'm sorry, but I encountered an issue while processing your request. ">>
  \o (IF err # Null THEN <<"Error: ">> \o err
      ELSE <<"Please try again with a clearer or simpler query.">>)

DeniedError == <<"User denied permission for the assistant to make changes">>
ConfirmationError == <<"Confirmation was denied">>
ToolFailedError(output) == <<"Tool execution failed: ">> \o output
ApiKeyMessages == { <<"OpenAI API key is not configured.">>, <<"Invalid OpenAI API key format.">> }

\* LoopCondition with the ceiling off by one.
LoopConditionInclusive(complete, forceExit, n) == ~complete /\ ~forceExit /\ n <= MAX_ITERATIONS

\* LoopCondition without the test of loopComplete.
LoopConditionIgnoresComplete(complete, forceExit, n) == ~forceExit /\ n < MAX_ITERATIONS

\* while (!loopComplete && !forceExitLoop && iterations < this.MAX_ITERATIONS)
LoopCondition(complete, forceExit, n) == ~complete /\ ~forceExit /\ n < MAX_ITERATIONS

\* IsOpenAIError that also matches the error of a failed key validation.
IsOpenAIErrorLoose(message) ==
  \/ Includes(message, "OPENAI_API_ERROR")
  \/ Includes(message, "400 Invalid parameter")
  \/ Includes(message, "messages with role 'tool' must be a response")
  \/ Includes(message, "invalid_request_error")
  \/ Includes(message, "OpenAI API key validation failed: ")

\* The test of the outer handler of executeAgentLoop.
IsOpenAIError(message) ==
  \/ Includes(message, "OPENAI_API_ERROR")
  \/ Includes(message, "400 Invalid parameter")
  \/ Includes(message, "messages with role 'tool' must be a response")
  \/ Includes(message, "invalid_request_error")

\* The locals of an invocation are discarded when it returns.
DiscardLocals ==
  /\ iterations' = 0
  /\ lastError' = Null
  /\ loopComplete' = FALSE
  /\ forceExitLoop' = FALSE
  /\ messages' = <<>>
  /\ assistantMessage' = NoMessage
  /\ originalHistory' = <<>>
  /\ latestMessages' = <<>>
  /\ results' = <<>>

\* An invocation starts: the observers of the previous one are reset.
ResetObservers ==
  /\ calls' = 0
  /\ failedWith' = Null
  /\ answered' = FALSE
  /\ doneResult' = "none"
  /\ toolFailure' = Null
  /\ UNCHANGED redispatched

\* executeAgentLoop(query) with a valid API key, up to the while loop.
ExecuteAgentLoop(query) ==
  /\ service = "AgentLoopService"
  /\ UNCHANGED <<chat, stream>>
  /\ sanitizedCount' = Null
  /\ UNCHANGED <<toolIndex, permissionGranted>>
  /\ pc = "idle"
  /\ exchanges > 0
  /\ exchanges' = exchanges - 1
  /\ conversationHistory' = addToConversationHistory(conversationHistory, UserMessage(query))
  /\ pc' = "loop"
  /\ outcome' = "none"
  /\ finalResponse' = <<>>
  /\ ResetObservers
  /\ UNCHANGED <<service, iterations, lastError, loopComplete, forceExitLoop, messages,
                 assistantMessage, originalHistory, latestMessages, results, nextId,
                 dispatched, granted>>
  /\ unreported' = FALSE

\* executeAgentLoop(query) when validateApiKey reports an invalid key: the
\* error reaches the outer handler, which rethrows what is not an API error.
ExecuteAgentLoopInvalidKey(message) ==
  /\ service = "AgentLoopService"
  /\ UNCHANGED <<chat, stream>>
  /\ UNCHANGED <<toolIndex, permissionGranted>>
  /\ pc = "idle"
  /\ exchanges > 0
  /\ exchanges' = exchanges - 1
  /\ LET error == <<"OpenAI API key validation failed: ">> \o message
     IN IF IsOpenAIError(error)
        THEN /\ sanitizedCount' = <<SanitizedCount(conversationHistory)>>
             /\ conversationHistory' =
                  addToConversationHistory(clearConversationHistory,
                    SystemMessage(<<"The conversation has been reset due to an API error.">>))
             /\ outcome' = "returned"
             /\ finalResponse' = <<"I encountered an issue while processing your request. The conversation has been reset to prevent further errors. Please try your question again.">>
        ELSE /\ outcome' = "threw"
             /\ sanitizedCount' = Null
             /\ UNCHANGED <<conversationHistory, finalResponse>>
  /\ ResetObservers
  /\ UNCHANGED <<service, pc, iterations, lastError, loopComplete, forceExitLoop, messages,
                 assistantMessage, originalHistory, latestMessages, results, nextId,
                 dispatched, granted>>
  /\ unreported' = FALSE

\* An iteration starts and its payload is the formatted history.
BuildPayload ==
  /\ service = "AgentLoopService"
  /\ UNCHANGED extras
  /\ UNCHANGED <<toolIndex, permissionGranted>>
  /\ pc = "loop"
  /\ LoopCondition(loopComplete, forceExitLoop, iterations)
  /\ ~(shouldSummarizeHistory(conversationHistory, MAX_PAYLOAD_SIZE, MAX_MESSAGES)
        /\ Len(conversationHistory) > 2
        /\ Len(OlderMessages(conversationHistory)) > 0)
  /\ iterations' = iterations + 1
  /\ messages' = formatMessages(systemPrompt, conversationHistory, lastError)
  /\ pc' = "call"
  /\ UNCHANGED <<service, conversationHistory, outcome, lastError, loopComplete, forceExitLoop,
                 finalResponse, assistantMessage, originalHistory, latestMessages, results,
                 nextId, exchanges, observers>>
  /\ unreported' = FALSE

\* An iteration starts with a history to summarize: the history is replaced
\* by its older messages and the summary is awaited.
BeginSummarize ==
  /\ service = "AgentLoopService"
  /\ UNCHANGED extras
  /\ UNCHANGED <<toolIndex, permissionGranted>>
  /\ pc = "loop"
  /\ LoopCondition(loopComplete, forceExitLoop, iterations)
  /\ shouldSummarizeHistory(conversationHistory, MAX_PAYLOAD_SIZE, MAX_MESSAGES)
  /\ Len(conversationHistory) > 2
  /\ Len(OlderMessages(conversationHistory)) > 0
  /\ iterations' = iterations + 1
  /\ messages' = formatMessages(systemPrompt, conversationHistory, lastError)
  /\ latestMessages' = LatestMessages(conversationHistory)
  /\ originalHistory' = conversationHistory
  /\ conversationHistory' =
        addAllToConversationHistory(clearConversationHistory, OlderMessages(conversationHistory))
  /\ pc' = "summarize"
  /\ UNCHANGED <<service, outcome, lastError, loopComplete, forceExitLoop, finalResponse,
                 assistantMessage, results, nextId, exchanges, observers>>
  /\ unreported' = FALSE

\* The payload the summarization branch builds.
SummarizedPayload(summary, latest) ==
  <<SystemMessage(systemPrompt), AssistantMessage(summary, <<>>)>> \o latest

\* summarizeConversationHistory returns: the history is restored and the
\* payload rebuilt around the summary.
SummarizeReturns(providerOk) ==
  /\ service = "AgentLoopService"
  /\ UNCHANGED extras
  /\ UNCHANGED <<toolIndex, permissionGranted>>
  /\ pc = "summarize"
  /\ conversationHistory' = addAllToConversationHistory(clearConversationHistory, originalHistory)
  /\ messages' =
        SummarizedPayload(
          SummaryContent(summarizeConversationHistory(conversationHistory, providerOk)),
          latestMessages)
  /\ originalHistory' = <<>>
  /\ latestMessages' = <<>>
  /\ pc' = "call"
  /\ UNCHANGED <<service, outcome, iterations, lastError, loopComplete, forceExitLoop,
                 finalResponse, assistantMessage, results, nextId, exchanges,
                 observers>>
  /\ UNCHANGED unreported

\* createChatCompletion throws a protocol validation error.
ProviderValidationError(message) ==
  /\ service = "AgentLoopService"
  /\ UNCHANGED <<chat, stream>>
  /\ sanitizedCount' = <<SanitizedCount(conversationHistory)>>
  /\ toolFailure' = Null
  /\ UNCHANGED redispatched
  /\ UNCHANGED <<toolIndex, permissionGranted>>
  /\ pc = "call"
  /\ IsValidationError(message)
  /\ calls' = calls + 1
  /\ failedWith' = message
  /\ conversationHistory' = clearConversationHistory
  /\ forceExitLoop' = TRUE
  /\ loopComplete' = TRUE
  /\ finalResponse' = ApiErrorApology
  /\ pc' = "loop"
  /\ UNCHANGED <<service, outcome, iterations, lastError, messages, assistantMessage,
                 originalHistory, latestMessages, results, nextId, exchanges,
                 dispatched, granted, answered, doneResult>>
  /\ UNCHANGED unreported

\* createChatCompletion throws any other error: recorded, then sleep(500).
ProviderTransientError(message) ==
  /\ service = "AgentLoopService"
  /\ UNCHANGED extras
  /\ toolFailure' = Null
  /\ UNCHANGED redispatched
  /\ UNCHANGED <<toolIndex, permissionGranted>>
  /\ pc = "call"
  /\ ~IsValidationError(message)
  /\ calls' = calls + 1
  /\ failedWith' = message
  /\ lastError' = message
  /\ pc' = "loop"
  /\ UNCHANGED <<service, conversationHistory, outcome, iterations, loopComplete, forceExitLoop,
                 finalResponse, messages, assistantMessage, originalHistory, latestMessages,
                 results, nextId, exchanges, dispatched, granted, answered, doneResult>>
  /\ unreported' = TRUE

\* createChatCompletion returns a message with no tool calls.
ProviderAnswers(content) ==
  /\ service = "AgentLoopService"
  /\ UNCHANGED extras
  /\ toolFailure' = Null
  /\ UNCHANGED redispatched
  /\ UNCHANGED <<toolIndex, permissionGranted>>
  /\ pc = "call"
  /\ calls' = calls + 1
  /\ LET message == AssistantMessage(content, <<>>)
     IN /\ conversationHistory' = addToConversationHistory(conversationHistory, message)
        /\ assistantMessage' = message
        /\ finalResponse' = generateFinalResponse(message)
  /\ loopComplete' = TRUE
  /\ answered' = TRUE
  /\ failedWith' = Null
  /\ pc' = "loop"
  /\ UNCHANGED <<service, outcome, iterations, lastError, forceExitLoop, messages,
                 originalHistory, latestMessages, results, nextId, exchanges,
                 dispatched, granted, doneResult>>
  /\ UNCHANGED unreported

\* createChatCompletion returns a message with tool calls.
ProviderRequestsTools(batch) ==
  /\ service = "AgentLoopService"
  /\ UNCHANGED extras
  /\ toolFailure' = Null
  /\ UNCHANGED redispatched
  /\ UNCHANGED <<toolIndex, permissionGranted>>
  /\ pc = "call"
  /\ exchanges > 0
  /\ exchanges' = exchanges - 1
  /\ calls' = calls + 1
  /\ failedWith' = Null
  /\ nextId' = nextId + Len(batch)
  /\ LET message == AssistantMessage(Null, ToolCallsOf(batch, nextId))
     IN /\ conversationHistory' = addToConversationHistory(conversationHistory, message)
        /\ assistantMessage' = message
  /\ pc' = IF HasDoneToolCall(ToolCallsOf(batch, nextId)) THEN "done" ELSE "tools"
  /\ UNCHANGED <<service, outcome, iterations, lastError, loopComplete, forceExitLoop,
                 finalResponse, messages, originalHistory, latestMessages, results,
                 dispatched, granted, answered, doneResult>>
  /\ UNCHANGED unreported

DispatchedCalls(batch) == {batch[i] : i \in 1..Len(batch)}

\* The error the iteration records after appending the results.
ErrorAfter(rs, err) ==
  IF FailedToolCall(rs) # <<>> THEN ToolFailedError(FailedToolCall(rs)[1].output) ELSE err

\* processToolCalls([doneToolCall], []) returns: its results are appended
\* and the first one becomes the final response.
DoneReturns(outcomes) ==
  /\ service = "AgentLoopService"
  /\ UNCHANGED extras
  /\ UNCHANGED <<toolIndex, permissionGranted>>
  /\ pc = "done"
  /\ UNCHANGED toolFailure
  /\ redispatched' = redispatched \cup (DispatchedCalls(DoneBatch(assistantMessage.tool_calls)) \cap dispatched)
  /\ LET batch == DoneBatch(assistantMessage.tool_calls)
         rs == processToolCalls(batch, outcomes)
     IN /\ DOMAIN outcomes = 1..Len(batch)
        /\ dispatched' = dispatched \cup DispatchedCalls(batch)
        /\ conversationHistory' =
              addAllToConversationHistory(conversationHistory, ResultMessages(rs))
        /\ finalResponse' = IF rs[1].output # <<>> THEN rs[1].output
                            ELSE generateFinalResponse(assistantMessage)
        /\ doneResult' = IF rs[1].success THEN "ok" ELSE "failed"
  /\ loopComplete' = TRUE
  /\ pc' = "loop"
  /\ UNCHANGED <<service, outcome, iterations, lastError, forceExitLoop, messages,
                 assistantMessage, originalHistory, latestMessages, results, nextId,
                 exchanges, calls, granted, failedWith, answered>>
  /\ UNCHANGED unreported

\* processToolCalls(tool_calls, BREAKING_CHANGE_TOOLS) returns the results
\* of a batch with no breaking call: they are appended, a failure recorded.
ToolsReturn(outcomes) ==
  /\ service = "AgentLoopService"
  /\ UNCHANGED extras
  /\ UNCHANGED <<toolIndex, permissionGranted>>
  /\ pc = "tools"
  /\ ~HasBreaking(assistantMessage.tool_calls, BREAKING_CHANGE_TOOLS)
  /\ DOMAIN outcomes = 1..Len(assistantMessage.tool_calls)
  /\ redispatched' = redispatched \cup (DispatchedCalls(assistantMessage.tool_calls) \cap dispatched)
  /\ LET failed == FailedToolCall(processToolCalls(assistantMessage.tool_calls, outcomes))
     IN toolFailure' = IF failed # <<>> THEN failed[1].output ELSE toolFailure
  /\ LET rs == processToolCalls(assistantMessage.tool_calls, outcomes)
     IN /\ dispatched' = dispatched \cup DispatchedCalls(assistantMessage.tool_calls)
        /\ conversationHistory' =
              addAllToConversationHistory(conversationHistory, ResultMessages(rs))
        /\ lastError' = ErrorAfter(rs, lastError)
  /\ pc' = "loop"
  /\ UNCHANGED <<service, outcome, iterations, loopComplete, forceExitLoop, finalResponse,
                 messages, assistantMessage, originalHistory, latestMessages, results, nextId,
                 exchanges, calls, granted, failedWith, answered,
                 doneResult>>
  /\ unreported' = IF FailedToolCall(processToolCalls(assistantMessage.tool_calls, outcomes)) # <<>>
                   THEN TRUE ELSE unreported

\* processToolCalls returns requiresUserConfirmation with no results for a
\* batch with a breaking call: showWarningMessage is awaited.
ToolsRequireConfirmation ==
  /\ service = "AgentLoopService"
  /\ UNCHANGED extras
  /\ UNCHANGED <<toolIndex, permissionGranted>>
  /\ pc = "tools"
  /\ HasBreaking(assistantMessage.tool_calls, BREAKING_CHANGE_TOOLS)
  /\ results' = <<>>
  /\ pc' = "confirm"
  /\ UNCHANGED <<service, conversationHistory, outcome, iterations, lastError, loopComplete,
                 forceExitLoop, finalResponse, messages, assistantMessage, originalHistory,
                 latestMessages, nextId, exchanges, observers>>
  /\ UNCHANGED unreported

\* processToolCalls surfaces the channel's denial as an error: the iteration's
\* handler records it, then sleep(500).
ToolsConfirmationFails ==
  /\ service = "AgentLoopService"
  /\ UNCHANGED extras
  /\ UNCHANGED <<toolIndex, permissionGranted>>
  /\ pc = "tools"
  /\ HasBreaking(assistantMessage.tool_calls, BREAKING_CHANGE_TOOLS)
  /\ lastError' = ConfirmationError
  /\ pc' = "loop"
  /\ UNCHANGED <<service, conversationHistory, outcome, iterations, loopComplete,
                 forceExitLoop, finalResponse, messages, assistantMessage, originalHistory,
                 latestMessages, results, nextId, exchanges, observers>>
  /\ unreported' = TRUE

\* The user answers 'Approve': the results in hand are appended.
UserApproves ==
  /\ service = "AgentLoopService"
  /\ UNCHANGED extras
  /\ UNCHANGED <<toolFailure, redispatched>>
  /\ UNCHANGED <<toolIndex, permissionGranted>>
  /\ pc = "confirm"
  /\ granted' = granted \cup DispatchedCalls(assistantMessage.tool_calls)
  /\ conversationHistory' =
        addAllToConversationHistory(conversationHistory, ResultMessages(results))
  /\ lastError' = ErrorAfter(results, lastError)
  /\ pc' = "loop"
  /\ UNCHANGED <<service, outcome, iterations, loopComplete, forceExitLoop, finalResponse,
                 messages, assistantMessage, originalHistory, latestMessages, results, nextId,
                 exchanges, calls, dispatched, failedWith, answered,
                 doneResult>>
  /\ unreported' = IF FailedToolCall(results) # <<>> THEN TRUE ELSE unreported

\* The user answers 'Deny' or dismisses the prompt: the thrown error is
\* recorded by the iteration's handler, then sleep(500).
UserDenies ==
  /\ service = "AgentLoopService"
  /\ UNCHANGED extras
  /\ UNCHANGED <<toolIndex, permissionGranted>>
  /\ pc = "confirm"
  /\ lastError' = DeniedError
  /\ pc' = "loop"
  /\ UNCHANGED <<service, conversationHistory, outcome, iterations, loopComplete,
                 forceExitLoop, finalResponse, messages, assistantMessage, originalHistory,
                 latestMessages, results, nextId, exchanges, observers>>
  /\ unreported' = TRUE

\* The while loop ends and executeAgentLoop returns finalResponse.
ExitLoop ==
  /\ service = "AgentLoopService"
  /\ UNCHANGED extras
  /\ UNCHANGED <<toolFailure, redispatched>>
  /\ UNCHANGED <<toolIndex, permissionGranted>>
  /\ pc = "loop"
  /\ ~LoopCondition(loopComplete, forceExitLoop, iterations)
  /\ finalResponse' = IF ~loopComplete THEN GiveUpResponse(lastError) ELSE finalResponse
  /\ pc' = "idle"
  /\ outcome' = "returned"
  /\ DiscardLocals
  /\ calls' = 0
  /\ UNCHANGED <<service, conversationHistory, nextId, exchanges, dispatched, granted,
                 failedWith, answered, doneResult>>
  /\ unreported' = FALSE

InitLoop == InitCommon /\ service = "AgentLoopService" /\ exchanges = MaxExchanges

NextLoop ==
  \/ \E query \in Queries : ExecuteAgentLoop(query)
  \/ \E message \in ApiKeyMessages : ExecuteAgentLoopInvalidKey(message)
  \/ BuildPayload
  \/ BeginSummarize
  \/ \E providerOk \in BOOLEAN : SummarizeReturns(providerOk)
  \/ \E message \in ProviderErrorMessages : ProviderValidationError(message)
  \/ \E message \in ProviderErrorMessages : ProviderTransientError(message)
  \/ ProviderAnswers(<<"answer">>)
  \/ \E batch \in Batches : ProviderRequestsTools(batch)
  \/ \E outcomes \in UNION {[1..n -> ToolOutcomes] : n \in 1..2} : DoneReturns(outcomes)
  \/ \E outcomes \in UNION {[1..n -> ToolOutcomes] : n \in 1..2} : ToolsReturn(outcomes)
  \/ ToolsRequireConfirmation
  \/ ToolsConfirmationFails
  \/ UserApproves
  \/ UserDenies
  \/ ExitLoop

SpecLoop == InitLoop /\ [][NextLoop]_vars

\* ---------------------------- AgentLoopService.executeStreamingAgentLoop
\* User queries, content deltas and tool-call deltas of one behaviour.
MaxDeltas == 4

\* One tool-call chunk of a delta: the stream's index, the id (NoId when the
\* chunk carries none) and the fragments of the name and of the arguments
\* ("" when the chunk carries none).
ToolCallChunk(index, id, name, arguments) ==
  [index |-> index, id |-> id, name |-> name, arguments |-> arguments]

\* The deltas a stream may carry, with ids relative to the stream.
ToolCallDeltas ==
  { <<ToolCallChunk(0, 1, "view_", "")>>,
    <<ToolCallChunk(0, NoId, "file", "{")>>,
    <<ToolCallChunk(0, 2, "", "}")>>,
    <<ToolCallChunk(1, 3, "create_file", "{")>>,
    <<ToolCallChunk(1, NoId, "", "}")>>,
    <<ToolCallChunk(0, NoId, "done", "{}")>>,
    <<ToolCallChunk(0, 1, "view_file", "{}"), ToolCallChunk(1, 2, "view_file", "{")>> }

\* The ids of a stream's chunks follow the ids the provider gave before.
ChunkAt(chunk, firstId) ==
  IF chunk.id = NoId THEN chunk ELSE [chunk EXCEPT !.id = firstId + chunk.id - 1]
DeltaAt(delta, firstId) == [i \in 1..Len(delta) |-> ChunkAt(delta[i], firstId)]

\* `call_${assistantMessageBuffer.tool_calls.length}`
GeneratedId(n) == 0 - (n + 1)

HasIndex(tool_calls, index) == \E i \in 1..Len(tool_calls) : tool_calls[i].index = index
IndexOf(tool_calls, index) ==
  CHOOSE i \in 1..Len(tool_calls) :
    tool_calls[i].index = index /\ \A j \in 1..(i - 1) : tool_calls[j].index # index

\* name += fragment, when the chunk carries one
AppendFragment(text, fragment) == IF fragment # "" THEN Append(text, fragment) ELSE text

\* MergeChunk that finds the buffered call by the chunk's id.
MergeChunkById(tool_calls, chunk) ==
  LET found == \E i \in 1..Len(tool_calls) : tool_calls[i].id = chunk.id
      created == [id |-> IF chunk.id # NoId THEN chunk.id ELSE GeneratedId(Len(tool_calls)),
                  name |-> <<>>, arguments |-> <<>>, index |-> chunk.index]
      calls1 == IF found THEN tool_calls ELSE Append(tool_calls, created)
      k == CHOOSE i \in 1..Len(calls1) :
             IF found THEN calls1[i].id = chunk.id /\ \A j \in 1..(i - 1) : calls1[j].id # chunk.id
             ELSE i = Len(calls1)
  IN [calls1 EXCEPT ![k].name = AppendFragment(@, chunk.name),
                    ![k].arguments = AppendFragment(@, chunk.arguments)]

\* The body of the for loop of processToolCallChunk, for one chunk.
MergeChunk(tool_calls, chunk) ==
  LET created == [id |-> IF chunk.id # NoId THEN chunk.id ELSE GeneratedId(Len(tool_calls)),
                  name |-> <<>>, arguments |-> <<>>, index |-> chunk.index]
      calls1 == IF HasIndex(tool_calls, chunk.index) THEN tool_calls
                ELSE Append(tool_calls, created)
      k == IndexOf(calls1, chunk.index)
  IN [calls1 EXCEPT ![k].name = AppendFragment(@, chunk.name),
                    ![k].arguments = AppendFragment(@, chunk.arguments)]

RECURSIVE processToolCallChunk(_, _)
processToolCallChunk(toolCallChunks, tool_calls) ==
  IF toolCallChunks = <<>> THEN tool_calls
  ELSE processToolCallChunk(Tail(toolCallChunks), MergeChunk(tool_calls, Head(toolCallChunks)))

\* The string the fragments of a name concatenate to.
Joined(fragments) ==
  IF fragments = <<>> THEN ""
  ELSE IF Len(fragments) = 1 THEN fragments[1]
  ELSE IF fragments = <<"view_", "file">> THEN "view_file"
  ELSE "unknown_tool"

\* The buffered calls as the tool calls of a message.
BufferedCalls(tool_calls) ==
  [i \in 1..Len(tool_calls) |-> ToolCall(tool_calls[i].id, Joined(tool_calls[i].name))]

\* assistantMessageBuffer as the message added to the history.
BufferMessage(buffer) == AssistantMessage(buffer.content, BufferedCalls(buffer.tool_calls))

\* HasCompletedToolCalls that takes any buffered call for complete.
HasCompletedToolCallsAny(tool_calls) == Len(tool_calls) > 0

\* tool_calls.length > 0 && tool_calls.every(tc => tc.function.name && tc.function.arguments)
HasCompletedToolCalls(tool_calls) ==
  /\ Len(tool_calls) > 0
  /\ \A i \in 1..Len(tool_calls) : tool_calls[i].name # <<>> /\ tool_calls[i].arguments # <<>>

EmptyBuffer == [content |-> <<>>, tool_calls |-> <<>>]

StreamResetResponse ==
  <<"I encountered an issue while processing your request. The conversation has been reset to prevent further errors. Please try your question again.">>

\* The locals of executeStreamingAgentLoop are discarded when it ends.
StreamEnd(how) ==
  /\ pc' = "idle"
  /\ outcome' = how
  /\ assistantMessageBuffer' = EmptyBuffer
  /\ streamedContent' = <<>>
  /\ messages' = <<>>
  /\ results' = <<>>
  /\ nextId' = nextId + 3

\* What the streaming actions leave alone.
StreamUnchanged ==
  UNCHANGED <<service, iterations, lastError, loopComplete, forceExitLoop, assistantMessage,
              originalHistory, latestMessages, toolIndex, permissionGranted, redispatched,
              toolFailure, doneResult, answered, chat, unreported>>

\* executeStreamingAgentLoop(query) with a valid API key, up to the await of
\* createStreamingChatCompletion.
ExecuteStreamingAgentLoop(query) ==
  /\ service = "AgentLoopService"
  /\ pc = "idle"
  /\ exchanges > 0
  /\ exchanges' = exchanges - 1
  /\ LET h == sanitizeToolMessages(addToConversationHistory(conversationHistory, UserMessage(query)))
     IN /\ ~(shouldSummarizeHistory(h, MAX_PAYLOAD_SIZE, MAX_MESSAGES)
             /\ Len(h) > 2 /\ Len(OlderMessages(h)) > 0)
        /\ conversationHistory' = h
        /\ messages' = formatMessages(systemPrompt, h, Null)
  /\ pc' = "stream"
  /\ outcome' = "none"
  /\ finalResponse' = <<>>
  /\ assistantMessageBuffer' = EmptyBuffer
  /\ streamedContent' = <<>>
  /\ received' = <<>>
  /\ calls' = 1
  /\ failedWith' = Null
  /\ sanitizedCount' = Null
  /\ UNCHANGED <<results, nextId, dispatched, granted>>
  /\ StreamUnchanged

\* executeStreamingAgentLoop(query) when validateApiKey reports an invalid
\* key: the error is thrown before the try block.
ExecuteStreamingAgentLoopInvalidKey(message) ==
  /\ service = "AgentLoopService"
  /\ pc = "idle"
  /\ exchanges > 0
  /\ exchanges' = exchanges - 1
  /\ outcome' = "threw"
  /\ failedWith' = Null
  /\ sanitizedCount' = Null
  /\ calls' = 0
  /\ UNCHANGED <<conversationHistory, pc, finalResponse, messages, results, nextId, dispatched,
                 granted, stream>>
  /\ StreamUnchanged

\* The stream delivers a delta with content: it is forwarded and buffered.
StreamContentDelta(content) ==
  /\ service = "AgentLoopService"
  /\ pc = "stream"
  /\ exchanges > 0
  /\ exchanges' = exchanges - 1
  /\ streamedContent' = streamedContent \o content
  /\ assistantMessageBuffer' = [assistantMessageBuffer EXCEPT !.content = @ \o content]
  /\ UNCHANGED <<conversationHistory, pc, outcome, finalResponse, messages, results, nextId,
                 calls, failedWith, sanitizedCount, dispatched, granted, received>>
  /\ StreamUnchanged

\* The stream delivers a delta with tool-call chunks: processToolCallChunk
\* merges them into the buffer.
StreamToolCallDelta(delta) ==
  /\ service = "AgentLoopService"
  /\ pc = "stream"
  /\ exchanges > 0
  /\ exchanges' = exchanges - 1
  /\ assistantMessageBuffer' =
        [assistantMessageBuffer EXCEPT
           !.tool_calls = processToolCallChunk(DeltaAt(delta, nextId), @)]
  /\ received' = received \o DeltaAt(delta, nextId)
  /\ UNCHANGED <<conversationHistory, pc, outcome, finalResponse, messages, results, nextId,
                 calls, failedWith, sanitizedCount, dispatched, granted, streamedContent>>
  /\ StreamUnchanged

\* createStreamingChatCompletion throws: the handler clears the history on a
\* validation error and returns a text, and rethrows any other error.
StreamFails(message) ==
  /\ service = "AgentLoopService"
  /\ pc = "stream"
  /\ failedWith' = message
  /\ IF IsValidationError(message)
     THEN /\ conversationHistory' = clearConversationHistory
          /\ finalResponse' = StreamResetResponse
          /\ StreamEnd("returned")
     ELSE /\ StreamEnd("threw")
          /\ UNCHANGED <<conversationHistory, finalResponse>>
  /\ UNCHANGED <<exchanges, calls, sanitizedCount, dispatched, granted, received>>
  /\ StreamUnchanged

\* The stream ends with no tool call or with an incomplete one: the buffer
\* is added to the history and its content returned.
StreamEndsWithoutCalls ==
  /\ service = "AgentLoopService"
  /\ pc = "stream"
  /\ ~HasCompletedToolCalls(assistantMessageBuffer.tool_calls)
  /\ conversationHistory' =
        addToConversationHistory(conversationHistory, BufferMessage(assistantMessageBuffer))
  /\ finalResponse' = generateFinalResponse(BufferMessage(assistantMessageBuffer))
  /\ StreamEnd("returned")
  /\ UNCHANGED <<exchanges, calls, failedWith, sanitizedCount, dispatched, granted, received>>
  /\ StreamUnchanged

\* The stream ends with complete tool calls: the done call, when there is
\* one, is handed to processToolCalls after the buffer is added to the
\* history; otherwise the whole batch is handed over.
StreamEndsWithCalls ==
  /\ service = "AgentLoopService"
  /\ pc = "stream"
  /\ HasCompletedToolCalls(assistantMessageBuffer.tool_calls)
  /\ IF HasDoneToolCall(BufferedCalls(assistantMessageBuffer.tool_calls))
     THEN /\ conversationHistory' =
                addToConversationHistory(conversationHistory, BufferMessage(assistantMessageBuffer))
          /\ pc' = "streamDone"
     ELSE /\ pc' = "streamTools"
          /\ UNCHANGED conversationHistory
  /\ UNCHANGED <<outcome, finalResponse, messages, results, nextId, exchanges, calls, failedWith,
                 sanitizedCount, dispatched, granted, stream>>
  /\ StreamUnchanged

\* processToolCalls([doneToolCall], []) returns to the streaming loop.
StreamDoneReturns(outcomes) ==
  /\ service = "AgentLoopService"
  /\ pc = "streamDone"
  /\ LET batch == DoneBatch(BufferedCalls(assistantMessageBuffer.tool_calls))
         rs == processToolCalls(batch, outcomes)
     IN /\ DOMAIN outcomes = 1..Len(batch)
        /\ dispatched' = dispatched \cup DispatchedCalls(batch)
        /\ conversationHistory' =
              addAllToConversationHistory(conversationHistory, ResultMessages(rs))
        /\ finalResponse' = IF rs[1].output # <<>> THEN rs[1].output
                            ELSE generateFinalResponse(BufferMessage(assistantMessageBuffer))
  /\ StreamEnd("returned")
  /\ UNCHANGED <<exchanges, calls, failedWith, sanitizedCount, granted, received>>
  /\ StreamUnchanged

\* processToolCalls returns the results of a batch with no breaking call: the
\* buffer and the results are added to the history.
StreamToolsReturn(outcomes) ==
  /\ service = "AgentLoopService"
  /\ pc = "streamTools"
  /\ LET batch == BufferedCalls(assistantMessageBuffer.tool_calls)
         rs == processToolCalls(batch, outcomes)
     IN /\ ~HasBreaking(batch, BREAKING_CHANGE_TOOLS)
        /\ DOMAIN outcomes = 1..Len(batch)
        /\ dispatched' = dispatched \cup DispatchedCalls(batch)
        /\ conversationHistory' =
              addAllToConversationHistory(
                addToConversationHistory(conversationHistory, BufferMessage(assistantMessageBuffer)),
                ResultMessages(rs))
  /\ finalResponse' = streamedContent
  /\ StreamEnd("returned")
  /\ UNCHANGED <<exchanges, calls, failedWith, sanitizedCount, granted, received>>
  /\ StreamUnchanged

\* processToolCalls returns requiresUserConfirmation with no results:
\* showWarningMessage is awaited.
StreamToolsRequireConfirmation ==
  /\ service = "AgentLoopService"
  /\ pc = "streamTools"
  /\ HasBreaking(BufferedCalls(assistantMessageBuffer.tool_calls), BREAKING_CHANGE_TOOLS)
  /\ results' = <<>>
  /\ pc' = "streamConfirm"
  /\ UNCHANGED <<conversationHistory, outcome, finalResponse, messages, nextId, exchanges, calls,
                 failedWith, sanitizedCount, dispatched, granted, stream>>
  /\ StreamUnchanged

\* The user answers 'Approve': the buffer and the results in hand are added.
StreamUserApproves ==
  /\ service = "AgentLoopService"
  /\ pc = "streamConfirm"
  /\ granted' = granted \cup DispatchedCalls(BufferedCalls(assistantMessageBuffer.tool_calls))
  /\ conversationHistory' =
        addAllToConversationHistory(
          addToConversationHistory(conversationHistory, BufferMessage(assistantMessageBuffer)),
          ResultMessages(results))
  /\ finalResponse' = streamedContent
  /\ StreamEnd("returned")
  /\ UNCHANGED <<exchanges, calls, failedWith, sanitizedCount, dispatched, received>>
  /\ StreamUnchanged

\* The user answers 'Deny' or dismisses the prompt, or processToolCalls
\* surfaces the denial: the error is rethrown by the handler.
StreamUserDenies ==
  /\ service = "AgentLoopService"
  /\ pc \in {"streamTools", "streamConfirm"}
  /\ HasBreaking(BufferedCalls(assistantMessageBuffer.tool_calls), BREAKING_CHANGE_TOOLS)
  /\ StreamEnd("threw")
  /\ UNCHANGED <<conversationHistory, finalResponse, exchanges, calls, failedWith,
                 sanitizedCount, dispatched, granted, received>>
  /\ StreamUnchanged

InitStreaming == InitCommon /\ service = "AgentLoopService" /\ exchanges = MaxDeltas

NextStreaming ==
  \/ ExecuteStreamingAgentLoop(<<"query">>)
  \/ \E message \in ApiKeyMessages : ExecuteStreamingAgentLoopInvalidKey(message)
  \/ StreamContentDelta(<<"answer">>)
  \/ \E delta \in ToolCallDeltas : StreamToolCallDelta(delta)
  \/ \E message \in ProviderErrorMessages : StreamFails(message)
  \/ StreamEndsWithoutCalls
  \/ StreamEndsWithCalls
  \/ \E outcomes \in UNION {[1..n -> ToolOutcomes] : n \in 1..2} : StreamDoneReturns(outcomes)
  \/ \E outcomes \in UNION {[1..n -> ToolOutcomes] : n \in 1..2} : StreamToolsReturn(outcomes)
  \/ StreamToolsRequireConfirmation
  \/ StreamUserApproves
  \/ StreamUserDenies

SpecStreaming == InitStreaming /\ [][NextStreaming]_vars

\* ------------------------------------------- OpenAIService.processQuery
PQ_MAX_ITERATIONS == 5
PQ_MAX_PAYLOAD_SIZE == 10000
PQ_MAX_MESSAGES == 10

PQBatches == Batches \cup { <<"view_file", "create_file">> }

\* What executeToolWithTimeout does with one call: it returns the tool's
\* text, or throws an error whose text may read like a provider error.
PQToolOutcomes == {"ok", "throw", "throwApi"}
ToolErrorText(toolOutcome) ==
  IF toolOutcome = "throwApi" THEN <<"OpenAI API error">> ELSE <<"tool error">>

UserResponses == { <<"Yes">>, <<"no">> }

\* The replies by which the user grants the permission asked for.
GrantingResponses == { <<"Yes">> }

\* userResponse.toLowerCase()
LowerCaseOf(fragment) == IF fragment = "Yes" THEN "yes" ELSE fragment
ToLowerCase(text) == [i \in 1..Len(text) |-> LowerCaseOf(text[i])]

TroubleResponse ==
  <<"I'm having trouble processing your request due to an API error. Please try again with a simpler query.">>
MultipleErrorsResponse(err) ==
  <<"I encountered multiple errors while processing your request. Last error: ">> \o err
KeyErrorResponse(err) ==
  <<"I encountered an error processing your request: ">> \o err
  \o <<". Please try again or check your OpenAI API key settings.">>
TaskCompleted == <<"Task completed: ", "summary">>
WaitingForPermission == <<"Waiting for user permission...">>
DeniedGuidance ==
  SystemMessage(<<"Permission was denied by the user. Acknowledge this to the user and suggest alternative approaches that don't require file or system changes.">>)

\* The test processQuery applies to what its handlers catch.
PQIsOpenAIError(message) ==
  \/ Includes(message, "400 Invalid parameter")
  \/ Includes(message, "invalid_request_error")
  \/ Includes(message, "OpenAI API error")

PQLoopCondition(complete, n) == ~complete /\ n < PQ_MAX_ITERATIONS

\* BreakingTools that finds no call breaking.
BreakingToolsNone(tool_calls) == <<>>

\* assistantMessage.tool_calls.filter(toolCall => breakingChangeTools.includes(name))
BreakingTools(tool_calls) == SelectSeq(tool_calls, LAMBDA c : c.name \in BREAKING_CHANGE_TOOLS)

RECURSIVE OperationLines(_)
OperationLines(breakingTools) ==
  IF breakingTools = <<>> THEN <<>>
  ELSE <<Head(breakingTools).name>> \o OperationLines(Tail(breakingTools))

PermissionMessage(breakingTools) ==
  <<"I need your permission to perform the following operations:">>
  \o OperationLines(breakingTools)
  \o <<"Do you want to allow these operations? (yes/no)">>

\* Placeholders for the breaking calls only.
PlaceholdersOfBreaking(tool_calls) ==
  [i \in 1..Len(BreakingTools(tool_calls)) |->
     ToolMessage(BreakingTools(tool_calls)[i].id, WaitingForPermission)]

\* for (const toolCall of assistantMessage.tool_calls) addToConversationHistory(placeholder)
Placeholders(tool_calls) ==
  [i \in 1..Len(tool_calls) |-> ToolMessage(tool_calls[i].id, WaitingForPermission)]

\* The system prompt and, when an error is carried, its notice.
PQPayloadHead(err) ==
  <<SystemMessage(systemPrompt)>> \o (IF err # Null THEN <<ErrorNotice(err)>> ELSE <<>>)

PQShouldSummarize(h) ==
  /\ PayloadSize(h) > PQ_MAX_PAYLOAD_SIZE \/ Len(h) > PQ_MAX_MESSAGES
  /\ Len(h) > 2
  /\ Len(OlderMessages(h)) > 0

\* processQuery(query) with a valid API key, up to the while loop.
EnterProcessQuery(h, query) ==
  /\ conversationHistory' = addToConversationHistory(h, UserMessage(query))
  /\ loopComplete' = FALSE
  /\ finalResponse' = <<>>
  /\ lastError' = Null
  /\ iterations' = 0
  /\ pc' = "pqLoop"

ProcessQuery(query) ==
  /\ service = "OpenAIService"
  /\ UNCHANGED <<chat, stream>>
  /\ sanitizedCount' = Null
  /\ pc = "idle"
  /\ exchanges > 0
  /\ exchanges' = exchanges - 1
  /\ EnterProcessQuery(conversationHistory, query)
  /\ outcome' = "none"
  /\ ResetObservers
  /\ UNCHANGED <<service, forceExitLoop, messages, assistantMessage, originalHistory,
                 latestMessages, results, nextId, dispatched, granted, toolIndex,
                 permissionGranted>>
  /\ unreported' = FALSE

\* processQuery(query) when validateApiKey reports an invalid key: the outer
\* handler tries processQuerySimple, which fails the same way and returns text.
ProcessQueryInvalidKey(message) ==
  /\ service = "OpenAIService"
  /\ UNCHANGED <<chat, stream>>
  /\ sanitizedCount' = Null
  /\ pc = "idle"
  /\ exchanges > 0
  /\ exchanges' = exchanges - 1
  /\ finalResponse' = KeyErrorResponse(message)
  /\ outcome' = "returned"
  /\ ResetObservers
  /\ UNCHANGED <<service, conversationHistory, pc, iterations, lastError, loopComplete,
                 forceExitLoop, messages, assistantMessage, originalHistory, latestMessages,
                 results, nextId, dispatched, granted, toolIndex, permissionGranted>>
  /\ unreported' = FALSE

\* An iteration of processQuery starts and sends the whole history.
PQBuildPayload ==
  /\ service = "OpenAIService"
  /\ UNCHANGED extras
  /\ pc = "pqLoop"
  /\ PQLoopCondition(loopComplete, iterations)
  /\ ~PQShouldSummarize(conversationHistory)
  /\ iterations' = iterations + 1
  /\ messages' = PQPayloadHead(lastError) \o conversationHistory
  /\ lastError' = Null
  /\ pc' = "pqCall"
  /\ UNCHANGED <<service, conversationHistory, outcome, loopComplete, forceExitLoop,
                 finalResponse, assistantMessage, originalHistory, latestMessages, results,
                 nextId, exchanges, observers, toolIndex, permissionGranted>>
  /\ unreported' = FALSE

\* An iteration of processQuery starts with a history to summarize.
PQBeginSummarize ==
  /\ service = "OpenAIService"
  /\ UNCHANGED extras
  /\ pc = "pqLoop"
  /\ PQLoopCondition(loopComplete, iterations)
  /\ PQShouldSummarize(conversationHistory)
  /\ iterations' = iterations + 1
  /\ messages' = PQPayloadHead(lastError)
  /\ lastError' = Null
  /\ latestMessages' = LatestMessages(conversationHistory)
  /\ originalHistory' = conversationHistory
  /\ conversationHistory' =
        addAllToConversationHistory(clearConversationHistory, OlderMessages(conversationHistory))
  /\ pc' = "pqSummarize"
  /\ UNCHANGED <<service, outcome, loopComplete, forceExitLoop, finalResponse,
                 assistantMessage, results, nextId, exchanges, observers, toolIndex,
                 permissionGranted>>
  /\ unreported' = FALSE

\* summarizeConversationHistory returns to processQuery.
PQSummarizeReturns(providerOk) ==
  /\ service = "OpenAIService"
  /\ UNCHANGED extras
  /\ pc = "pqSummarize"
  /\ conversationHistory' = addAllToConversationHistory(clearConversationHistory, originalHistory)
  /\ messages' = messages
                   \o <<summarizeConversationHistory(conversationHistory, providerOk)>>
                   \o latestMessages
  /\ originalHistory' = <<>>
  /\ latestMessages' = <<>>
  /\ pc' = "pqCall"
  /\ UNCHANGED <<service, outcome, iterations, lastError, loopComplete, forceExitLoop,
                 finalResponse, assistantMessage, results, nextId, exchanges, observers,
                 toolIndex, permissionGranted>>
  /\ UNCHANGED unreported

\* The while loop of processQuery ends and finalResponse is returned.
PQExit ==
  /\ service = "OpenAIService"
  /\ UNCHANGED extras
  /\ UNCHANGED <<toolFailure, redispatched>>
  /\ pc = "pqLoop"
  /\ ~PQLoopCondition(loopComplete, iterations)
  /\ pc' = "idle"
  /\ outcome' = "returned"
  /\ DiscardLocals
  /\ calls' = 0
  /\ UNCHANGED <<service, conversationHistory, finalResponse, nextId, exchanges, dispatched,
                 granted, failedWith, answered, doneResult, toolIndex, permissionGranted>>
  /\ unreported' = FALSE

\* The provider call of processQuery throws: the iteration's handler ends the
\* loop on an API error, and otherwise records the error and sleeps.
PQProviderError(message) ==
  /\ service = "OpenAIService"
  /\ UNCHANGED extras
  /\ toolFailure' = Null
  /\ UNCHANGED redispatched
  /\ pc = "pqCall"
  /\ calls' = calls + 1
  /\ failedWith' = message
  /\ IF PQIsOpenAIError(message)
     THEN /\ loopComplete' = TRUE
          /\ finalResponse' = TroubleResponse
          /\ UNCHANGED lastError
     ELSE /\ lastError' = message
          /\ loopComplete' = (iterations >= PQ_MAX_ITERATIONS - 1)
          /\ finalResponse' = IF iterations >= PQ_MAX_ITERATIONS - 1
                              THEN MultipleErrorsResponse(message) ELSE finalResponse
  /\ pc' = "pqLoop"
  /\ UNCHANGED <<service, conversationHistory, outcome, iterations, forceExitLoop, messages,
                 assistantMessage, originalHistory, latestMessages, results, nextId,
                 exchanges, dispatched, granted, answered, doneResult, toolIndex,
                 permissionGranted>>
  /\ unreported' = IF PQIsOpenAIError(message) THEN unreported ELSE TRUE

\* The provider returns a message with no tool calls to processQuery.
PQProviderAnswers(content) ==
  /\ service = "OpenAIService"
  /\ UNCHANGED extras
  /\ toolFailure' = Null
  /\ UNCHANGED redispatched
  /\ pc = "pqCall"
  /\ calls' = calls + 1
  /\ failedWith' = Null
  /\ conversationHistory' =
        addToConversationHistory(conversationHistory, AssistantMessage(content, <<>>))
  /\ finalResponse' = content
  /\ loopComplete' = TRUE
  /\ answered' = TRUE
  /\ pc' = "pqLoop"
  /\ UNCHANGED <<service, outcome, iterations, lastError, forceExitLoop, messages,
                 assistantMessage, originalHistory, latestMessages, results, nextId,
                 exchanges, dispatched, granted, doneResult, toolIndex, permissionGranted>>
  /\ UNCHANGED unreported

\* The provider returns a batch to processQuery: the assistant message is
\* appended and the batch classified.
PQReceiveBatch(batch) ==
  /\ service = "OpenAIService"
  /\ UNCHANGED extras
  /\ toolFailure' = Null
  /\ UNCHANGED redispatched
  /\ pc = "pqCall"
  /\ exchanges > 0
  /\ exchanges' = exchanges - 1
  /\ failedWith' = Null
  /\ nextId' = nextId + Len(batch)
  /\ UNCHANGED <<service, forceExitLoop, originalHistory, latestMessages, results, dispatched,
                 granted, answered, doneResult, permissionGranted>>

\* The batch carries a done call: the done tool is awaited.
PQProviderRequestsDone(batch) ==
  /\ PQReceiveBatch(batch)
  /\ LET message == AssistantMessage(Null, ToolCallsOf(batch, nextId))
     IN /\ HasDoneToolCall(message.tool_calls)
        /\ assistantMessage' = message
        /\ conversationHistory' = addToConversationHistory(conversationHistory, message)
  /\ calls' = calls + 1
  /\ pc' = "pqDone"
  /\ UNCHANGED <<outcome, iterations, lastError, loopComplete, finalResponse, messages,
                 toolIndex>>
  /\ UNCHANGED unreported

\* The batch carries a breaking call and no done call: a placeholder per
\* call and the permission request are appended, and the request returned.
PQProviderRequestsPermission(batch) ==
  /\ PQReceiveBatch(batch)
  /\ LET message == AssistantMessage(Null, ToolCallsOf(batch, nextId))
         breakingTools == BreakingTools(message.tool_calls)
     IN /\ ~HasDoneToolCall(message.tool_calls)
        /\ Len(breakingTools) > 0
        /\ conversationHistory' =
              addToConversationHistory(
                addAllToConversationHistory(
                  addToConversationHistory(conversationHistory, message),
                  Placeholders(message.tool_calls)),
                AssistantMessage(PermissionMessage(breakingTools), <<>>))
        /\ finalResponse' = PermissionMessage(breakingTools)
  /\ pc' = "idle"
  /\ outcome' = "returned"
  /\ calls' = 0
  /\ iterations' = 0
  /\ lastError' = Null
  /\ loopComplete' = FALSE
  /\ messages' = <<>>
  /\ assistantMessage' = NoMessage
  /\ UNCHANGED toolIndex
  /\ unreported' = FALSE

\* The batch carries neither: its first tool is awaited.
PQProviderRequestsTools(batch) ==
  /\ PQReceiveBatch(batch)
  /\ LET message == AssistantMessage(Null, ToolCallsOf(batch, nextId))
     IN /\ ~HasDoneToolCall(message.tool_calls)
        /\ Len(BreakingTools(message.tool_calls)) = 0
        /\ assistantMessage' = message
        /\ conversationHistory' = addToConversationHistory(conversationHistory, message)
  /\ calls' = calls + 1
  /\ toolIndex' = 1
  /\ pc' = "pqTool"
  /\ UNCHANGED <<outcome, iterations, lastError, loopComplete, finalResponse, messages>>
  /\ UNCHANGED unreported

\* executeToolWithTimeout('done', ...) returns or throws.
PQDoneReturns(toolOutcome) ==
  /\ service = "OpenAIService"
  /\ UNCHANGED extras
  /\ pc = "pqDone"
  /\ UNCHANGED toolFailure
  /\ redispatched' = redispatched \cup ({DoneToolCall(assistantMessage.tool_calls)} \cap dispatched)
  /\ LET doneToolCall == DoneToolCall(assistantMessage.tool_calls)
     IN /\ dispatched' = dispatched \cup {doneToolCall}
        /\ IF toolOutcome = "ok"
           THEN /\ conversationHistory' =
                     addToConversationHistory(conversationHistory,
                                              ToolMessage(doneToolCall.id, <<"output">>))
                /\ finalResponse' = TaskCompleted
                /\ loopComplete' = TRUE
                /\ doneResult' = "ok"
                /\ UNCHANGED lastError
           ELSE IF PQIsOpenAIError(ToolErrorText(toolOutcome))
           THEN /\ loopComplete' = TRUE
                /\ finalResponse' = TroubleResponse
                /\ doneResult' = "failed"
                /\ UNCHANGED <<conversationHistory, lastError>>
           ELSE /\ conversationHistory' =
                     addToConversationHistory(conversationHistory,
                       ToolMessage(doneToolCall.id,
                                   <<"Error executing tool: ">> \o ToolErrorText(toolOutcome)))
                /\ lastError' = ToolErrorText(toolOutcome)
                /\ doneResult' = "failed"
                /\ UNCHANGED <<loopComplete, finalResponse>>
  /\ pc' = "pqLoop"
  /\ UNCHANGED <<service, outcome, iterations, forceExitLoop, messages, assistantMessage,
                 originalHistory, latestMessages, results, nextId, exchanges, calls, granted,
                 failedWith, answered, toolIndex, permissionGranted>>
  /\ unreported' = IF toolOutcome # "ok" /\ ~PQIsOpenAIError(ToolErrorText(toolOutcome))
                   THEN TRUE ELSE unreported

\* executeToolWithTimeout returns or throws for the call at toolIndex of a
\* batch with no breaking call.
PQToolReturns(toolOutcome) ==
  /\ service = "OpenAIService"
  /\ UNCHANGED extras
  /\ pc = "pqTool"
  /\ redispatched' = redispatched \cup ({assistantMessage.tool_calls[toolIndex]} \cap dispatched)
  /\ toolFailure' = IF toolOutcome = "ok" THEN toolFailure ELSE ToolErrorText(toolOutcome)
  /\ LET toolCall == assistantMessage.tool_calls[toolIndex]
         last == toolIndex = Len(assistantMessage.tool_calls)
     IN /\ dispatched' = dispatched \cup {toolCall}
        /\ IF toolOutcome = "ok"
           THEN /\ conversationHistory' =
                     addToConversationHistory(conversationHistory,
                                              ToolMessage(toolCall.id, <<"output">>))
                /\ pc' = IF last THEN "pqLoop" ELSE "pqTool"
                /\ toolIndex' = IF last THEN 0 ELSE toolIndex + 1
                /\ UNCHANGED <<lastError, loopComplete, finalResponse>>
           ELSE IF PQIsOpenAIError(ToolErrorText(toolOutcome))
           THEN /\ loopComplete' = TRUE
                /\ finalResponse' = TroubleResponse
                /\ pc' = "pqLoop"
                /\ toolIndex' = 0
                /\ UNCHANGED <<conversationHistory, lastError>>
           ELSE /\ conversationHistory' =
                     addToConversationHistory(conversationHistory,
                       ToolMessage(toolCall.id,
                                   <<"Error executing tool: ">> \o ToolErrorText(toolOutcome)))
                /\ lastError' = ToolErrorText(toolOutcome)
                /\ pc' = IF last THEN "pqLoop" ELSE "pqTool"
                /\ toolIndex' = IF last THEN 0 ELSE toolIndex + 1
                /\ UNCHANGED <<loopComplete, finalResponse>>
  /\ UNCHANGED <<service, outcome, iterations, forceExitLoop, messages, assistantMessage,
                 originalHistory, latestMessages, results, nextId, exchanges, calls, granted,
                 failedWith, answered, doneResult, permissionGranted>>
  /\ unreported' = IF toolOutcome # "ok" /\ ~PQIsOpenAIError(ToolErrorText(toolOutcome))
                   THEN TRUE ELSE unreported

\* ---------------------------------- OpenAIService.continueWithPermission
\* PermissionGranted that takes every reply for a grant.
PermissionGrantedAlways(userResponse) == TRUE

\* userResponse.toLowerCase().includes('yes')
PermissionGranted(userResponse) == Includes(ToLowerCase(userResponse), "yes")

HasAssistantWithTools(h) == \E i \in 1..Len(h) : CarriesCalls(h[i])

\* The most recent assistant message with tool calls.
LastAssistantWithTools(h) ==
  h[CHOOSE i \in 1..Len(h) : CarriesCalls(h[i]) /\ \A j \in (i + 1)..Len(h) : ~CarriesCalls(h[j])]

IsPlaceholderOf(m, id) ==
  m.role = "tool" /\ m.tool_call_id = id /\ m.content = WaitingForPermission

\* ResolvePlaceholder that always appends a new tool-role message.
ResolveByAppend(h, id, content) == addToConversationHistory(h, ToolMessage(id, content))

\* The first placeholder of the call is overwritten in place; when there is
\* none, a new tool-role message is appended.
ResolvePlaceholder(h, id, content) ==
  IF \E i \in 1..Len(h) : IsPlaceholderOf(h[i], id)
  THEN LET k == CHOOSE i \in 1..Len(h) :
                  IsPlaceholderOf(h[i], id) /\ \A j \in 1..(i - 1) : ~IsPlaceholderOf(h[j], id)
       IN [h EXCEPT ![k].content = content]
  ELSE addToConversationHistory(h, ToolMessage(id, content))

\* The payload of the provider call of continueWithPermission.
CWPPayload(h, isGranted) ==
  <<SystemMessage(systemPrompt)>> \o (IF ~isGranted THEN <<DeniedGuidance>> ELSE <<>>) \o h

\* continueWithPermission(userResponse), up to its first await: the reply
\* is appended; on a grant with a batch to execute the first tool is
\* awaited, otherwise the provider call.
ContinueWithPermission(userResponse) ==
  /\ service = "OpenAIService"
  /\ UNCHANGED <<chat, stream>>
  /\ sanitizedCount' = Null
  /\ pc = "idle"
  /\ exchanges > 0
  /\ exchanges' = exchanges - 1
  /\ outcome' = "none"
  /\ finalResponse' = <<>>
  /\ ResetObservers
  /\ LET isGranted == PermissionGranted(userResponse)
         h == addToConversationHistory(conversationHistory, UserMessage(userResponse))
     IN /\ permissionGranted' = isGranted
        /\ conversationHistory' = h
        /\ IF isGranted /\ HasAssistantWithTools(h)
           THEN /\ assistantMessage' = LastAssistantWithTools(h)
                /\ toolIndex' = 1
                /\ pc' = "cwpTool"
                /\ UNCHANGED messages
           ELSE /\ messages' = CWPPayload(h, isGranted)
                /\ pc' = "cwpCall"
                /\ UNCHANGED <<assistantMessage, toolIndex>>
        /\ granted' = IF userResponse \in GrantingResponses /\ HasAssistantWithTools(h)
                      THEN granted \cup DispatchedCalls(LastAssistantWithTools(h).tool_calls)
                      ELSE granted
  /\ UNCHANGED <<service, iterations, lastError, loopComplete, forceExitLoop, originalHistory,
                 latestMessages, results, nextId, dispatched>>
  /\ unreported' = FALSE

\* executeToolWithTimeout returns or throws for the call at toolIndex of the
\* permitted batch: its placeholder is resolved with the output or the error.
CWPToolReturns(toolOutcome) ==
  /\ service = "OpenAIService"
  /\ UNCHANGED extras
  /\ pc = "cwpTool"
  /\ UNCHANGED toolFailure
  /\ redispatched' = redispatched \cup ({assistantMessage.tool_calls[toolIndex]} \cap dispatched)
  /\ LET toolCall == assistantMessage.tool_calls[toolIndex]
         last == toolIndex = Len(assistantMessage.tool_calls)
         content == IF toolOutcome = "ok" THEN <<"output">>
                    ELSE <<"Error: ">> \o ToolErrorText(toolOutcome)
         h == ResolvePlaceholder(conversationHistory, toolCall.id, content)
     IN /\ dispatched' = dispatched \cup {toolCall}
        /\ conversationHistory' = h
        /\ IF last
           THEN /\ messages' = CWPPayload(h, permissionGranted)
                /\ toolIndex' = 0
                /\ pc' = "cwpCall"
           ELSE /\ toolIndex' = toolIndex + 1
                /\ pc' = "cwpTool"
                /\ UNCHANGED messages
  /\ UNCHANGED <<service, outcome, iterations, lastError, loopComplete, forceExitLoop,
                 finalResponse, assistantMessage, originalHistory, latestMessages, results,
                 permissionGranted, nextId, exchanges, calls, granted, failedWith, answered,
                 doneResult>>
  /\ UNCHANGED unreported

\* The provider call of continueWithPermission throws: nothing catches it.
CWPProviderError(message) ==
  /\ service = "OpenAIService"
  /\ UNCHANGED extras
  /\ UNCHANGED <<toolFailure, redispatched>>
  /\ pc = "cwpCall"
  /\ failedWith' = message
  /\ pc' = "idle"
  /\ outcome' = "threw"
  /\ DiscardLocals
  /\ calls' = 0
  /\ permissionGranted' = FALSE
  /\ UNCHANGED <<service, conversationHistory, finalResponse, toolIndex, nextId, exchanges,
                 dispatched, granted, answered, doneResult>>
  /\ unreported' = FALSE

\* The provider returns a message with no tool calls: its content is returned.
CWPProviderAnswers(content) ==
  /\ service = "OpenAIService"
  /\ UNCHANGED extras
  /\ UNCHANGED <<toolFailure, redispatched>>
  /\ pc = "cwpCall"
  /\ conversationHistory' =
        addToConversationHistory(conversationHistory, AssistantMessage(content, <<>>))
  /\ finalResponse' = content
  /\ answered' = TRUE
  /\ pc' = "idle"
  /\ outcome' = "returned"
  /\ DiscardLocals
  /\ calls' = 0
  /\ permissionGranted' = FALSE
  /\ UNCHANGED <<service, toolIndex, nextId, exchanges, dispatched, granted, failedWith,
                 doneResult>>
  /\ unreported' = FALSE

\* The provider returns new tool calls: the message is appended and
\* processQuery('') entered.
CWPProviderRequestsTools(batch) ==
  /\ service = "OpenAIService"
  /\ UNCHANGED extras
  /\ toolFailure' = Null
  /\ UNCHANGED redispatched
  /\ pc = "cwpCall"
  /\ exchanges > 0
  /\ exchanges' = exchanges - 1
  /\ nextId' = nextId + Len(batch)
  /\ EnterProcessQuery(
       addToConversationHistory(conversationHistory,
                                AssistantMessage(Null, ToolCallsOf(batch, nextId))),
       <<>>)
  /\ messages' = <<>>
  /\ assistantMessage' = NoMessage
  /\ permissionGranted' = FALSE
  /\ calls' = 0
  /\ UNCHANGED <<service, outcome, forceExitLoop, originalHistory, latestMessages, results,
                 toolIndex, dispatched, granted, failedWith, answered, doneResult>>
  /\ unreported' = FALSE

InitPQ == InitCommon /\ service = "OpenAIService" /\ exchanges = MaxExchanges

NextPQ ==
  \/ \E query \in Queries : ProcessQuery(query)
  \/ \E message \in ApiKeyMessages : ProcessQueryInvalidKey(message)
  \/ PQBuildPayload
  \/ PQBeginSummarize
  \/ \E providerOk \in BOOLEAN : PQSummarizeReturns(providerOk)
  \/ PQExit
  \/ \E message \in ProviderErrorMessages : PQProviderError(message)
  \/ PQProviderAnswers(<<"answer">>)
  \/ \E batch \in PQBatches : PQProviderRequestsDone(batch)
  \/ \E batch \in PQBatches : PQProviderRequestsPermission(batch)
  \/ \E batch \in PQBatches : PQProviderRequestsTools(batch)
  \/ \E toolOutcome \in PQToolOutcomes : PQDoneReturns(toolOutcome)
  \/ \E toolOutcome \in PQToolOutcomes : PQToolReturns(toolOutcome)
  \/ \E userResponse \in UserResponses : ContinueWithPermission(userResponse)
  \/ \E toolOutcome \in PQToolOutcomes : CWPToolReturns(toolOutcome)
  \/ \E message \in ProviderErrorMessages : CWPProviderError(message)
  \/ CWPProviderAnswers(<<"answer">>)
  \/ \E batch \in PQBatches : CWPProviderRequestsTools(batch)

SpecPQ == InitPQ /\ [][NextPQ]_vars

\* Either service, chosen at construction.
Init == InitLoop \/ InitPQ
Next == NextLoop \/ NextPQ
Spec == Init /\ [][Next]_vars

\* --------------------------------------------------- a long conversation
\* The same services with a provider and tools that do not fail, over more
\* turns: the histories that reach the truncation of the ConversationManager.
InitConversation ==
  /\ InitCommon
  /\ service \in {"AgentLoopService", "OpenAIService"}
  /\ exchanges = MaxTurns

NextConversation ==
  \/ ExecuteAgentLoop(<<"query">>)
  \/ BuildPayload
  \/ BeginSummarize
  \/ SummarizeReturns(TRUE)
  \/ ProviderAnswers(<<"answer">>)
  \/ ProviderRequestsTools(<<"view_file", "view_file">>)
  \/ ToolsReturn(<<"ok", "ok">>)
  \/ ExitLoop
  \/ ProcessQuery(<<"query">>)
  \/ PQBuildPayload
  \/ PQBeginSummarize
  \/ PQSummarizeReturns(TRUE)
  \/ PQExit
  \/ PQProviderAnswers(<<"answer">>)
  \/ PQProviderRequestsTools(<<"view_file", "view_file">>)
  \/ PQProviderRequestsPermission(<<"create_file">>)
  \/ PQToolReturns("ok")
  \/ ContinueWithPermission(<<"Yes">>)
  \/ CWPToolReturns("ok")
  \/ CWPProviderAnswers(<<"answer">>)

SpecConversation == InitConversation /\ [][NextConversation]_vars

\* ------------------------------------------------- a loop that runs out
\* User queries and tool-call batches of a behaviour whose provider asks
\* for a tool in every iteration: enough for MAX_ITERATIONS batches.
MaxBatches == 11

InitExhaust == InitCommon /\ service = "AgentLoopService" /\ exchanges = MaxBatches

NextExhaust ==
  \/ ExecuteAgentLoop(<<"query">>)
  \/ BuildPayload
  \/ BeginSummarize
  \/ SummarizeReturns(TRUE)
  \/ ProviderTransientError(<<"429 rate limit exceeded">>)
  \/ ProviderRequestsTools(<<"view_file">>)
  \/ ToolsReturn(<<"ok">>)
  \/ ExitLoop

SpecExhaust == InitExhaust /\ [][NextExhaust]_vars

\* ------------------------------------------- two invocations interleaved
\* A second executeAgentLoop(query) is called on the same services while the
\* first invocation is suspended at an await: it runs up to its own first
\* await, which adds the user query to the shared history, and stays
\* suspended there.
ExecuteAgentLoopConcurrently(query) ==
  /\ service = "AgentLoopService"
  /\ pc \notin {"idle", "loop"}
  /\ exchanges > 0
  /\ exchanges' = exchanges - 1
  /\ conversationHistory' = addToConversationHistory(conversationHistory, UserMessage(query))
  /\ UNCHANGED <<service, pc, outcome, locals, toolIndex, permissionGranted, nextId,
                 observers, extras, unreported>>

NextInterleaved ==
  \/ \E query \in Queries : ExecuteAgentLoop(query)
  \/ BuildPayload
  \/ BeginSummarize
  \/ \E providerOk \in BOOLEAN : SummarizeReturns(providerOk)
  \/ ProviderAnswers(<<"answer">>)
  \/ ProviderRequestsTools(<<"view_file">>)
  \/ ToolsReturn(<<"ok">>)
  \/ ExitLoop
  \/ ExecuteAgentLoopConcurrently(<<"query">>)

SpecInterleaved == InitLoop /\ [][NextInterleaved]_vars

\* ------------------------------------------------ the ConversationService
\* Messages stored by direct calls of addToConversationHistory.
MaxStored == 3

StoredMessages ==
  { UserMessage(<<"query">>),
    AssistantMessage(Null, ToolCallsOf(<<"view_file">>, 1)),
    AssistantMessage(Null, ToolCallsOf(<<"view_file", "view_file">>, 1)),
    AssistantMessage(<<"answer">>, <<>>),
    ToolMessage(1, <<"output">>),
    ToolMessage(2, <<"output">>) }

\* addToConversationHistory(message), called on the service directly.
StoreMessage(message) ==
  /\ service = "ConversationService"
  /\ Len(conversationHistory) < MaxStored
  /\ conversationHistory' = addToConversationHistory(conversationHistory, message)
  /\ pc' = "idle"
  /\ UNCHANGED <<service, outcome, locals, toolIndex, permissionGranted, nextId, exchanges,
                 observers, extras>>
  /\ UNCHANGED unreported

\* sanitizeToolMessages(), called on the service directly.
SanitizeToolMessages ==
  /\ service = "ConversationService"
  /\ pc = "idle"
  /\ conversationHistory' = sanitizeToolMessages(conversationHistory)
  /\ sanitizedCount' = <<SanitizedCount(conversationHistory)>>
  /\ pc' = "sanitized"
  /\ UNCHANGED <<service, outcome, locals, toolIndex, permissionGranted, nextId, exchanges,
                 observers, chat, stream>>
  /\ UNCHANGED unreported

InitStore == InitCommon /\ service = "ConversationService" /\ exchanges = 0
NextStore ==
  \/ \E message \in StoredMessages : StoreMessage(message)
  \/ SanitizeToolMessages
SpecStore == InitStore /\ [][NextStore]_vars

\* ------------------------------------------------------------- ChatView
\* Messages the user sends from the chat panel.
MaxSent == 3

\* sendMessage() of the webview script: the text is posted to the extension.
WebviewSendMessage ==
  /\ service = "ChatView"
  /\ ~inputDisabled
  /\ exchanges > 0
  /\ exchanges' = exchanges - 1
  /\ posted' = posted + 1
  /\ UNCHANGED <<service, conversationHistory, pc, outcome, locals, toolIndex,
                 permissionGranted, nextId, observers, sanitizedCount, toWebview,
                 inputDisabled, messageHistory, inFlight, stream>>
  /\ UNCHANGED unreported

\* onDidReceiveMessage gets a sendMessage command: handleUserMessage runs up
\* to the first await of processQuery, which has appended the user message.
HandleUserMessage(text) ==
  /\ service = "ChatView"
  /\ posted > 0
  /\ posted' = posted - 1
  /\ messageHistory' = Append(messageHistory, "user")
  /\ toWebview' = Append(toWebview, "showProcessing")
  /\ conversationHistory' = addToConversationHistory(conversationHistory, UserMessage(text))
  /\ inFlight' = inFlight + 1
  /\ UNCHANGED <<service, pc, outcome, locals, toolIndex, permissionGranted, nextId, exchanges,
                 observers, sanitizedCount, inputDisabled, stream>>
  /\ UNCHANGED unreported

\* The provider answers an invocation in flight: processQuery appends the
\* answer and returns it, and handleUserMessage shows it.
ProcessQueryReturns(content) ==
  /\ service = "ChatView"
  /\ inFlight > 0
  /\ inFlight' = inFlight - 1
  /\ conversationHistory' =
        addToConversationHistory(conversationHistory, AssistantMessage(content, <<>>))
  /\ messageHistory' = Append(messageHistory, "assistant")
  /\ toWebview' = Append(toWebview, "hideProcessing")
  /\ UNCHANGED <<service, pc, outcome, locals, toolIndex, permissionGranted, nextId, exchanges,
                 observers, sanitizedCount, posted, inputDisabled, stream>>
  /\ UNCHANGED unreported

\* The webview's message listener gets showProcessing or hideProcessing.
WebviewReceives ==
  /\ service = "ChatView"
  /\ toWebview # <<>>
  /\ inputDisabled' = (Head(toWebview) = "showProcessing")
  /\ toWebview' = Tail(toWebview)
  /\ UNCHANGED <<service, conversationHistory, pc, outcome, locals, toolIndex,
                 permissionGranted, nextId, exchanges, observers, sanitizedCount, posted,
                 messageHistory, inFlight, stream>>
  /\ UNCHANGED unreported

InitChat == InitCommon /\ service = "ChatView" /\ exchanges = MaxSent
NextChat ==
  \/ WebviewSendMessage
  \/ HandleUserMessage(<<"query">>)
  \/ ProcessQueryReturns(<<"answer">>)
  \/ WebviewReceives
SpecChat == InitChat /\ [][NextChat]_vars

\* =============================================================== claims
Last(h) == h[Len(h)]
CarriesToolCalls(m) == CarriesCalls(m)
ProviderCallInFlight == service = "AgentLoopService" /\ pc = "call"

\* Every tool-role message of p answers a call of the most recent preceding
\* assistant message with tool_calls.
ToolMessagesMatch(p) ==
  \A i \in 1..Len(p) :
    p[i].role = "tool" =>
      \E j \in 1..(i - 1) :
        /\ CarriesToolCalls(p[j])
        /\ \A k \in (j + 1)..(i - 1) : ~CarriesToolCalls(p[k])
        /\ p[i].tool_call_id \in CallIds(p[j].tool_calls)

\* C1: in every payload executeAgentLoop passes to createChatCompletion,
\* each tool-role message has the id of a tool call of the most recent
\* preceding assistant message with tool_calls, the payload rebuilt by the
\* summarization branch included.
C1_PayloadToolMessagesMatch == ProviderCallInFlight => ToolMessagesMatch(messages)

\* The positions after j up to the next user or assistant message.
AnswerPositions(h, j) ==
  {k \in (j + 1)..Len(h) : \A l \in (j + 1)..k : h[l].role \notin {"user", "assistant"}}

ToolCallsAnswered(h) ==
  \A j \in 1..Len(h) :
    CarriesToolCalls(h[j]) =>
      \A id \in CallIds(h[j].tool_calls) :
        Cardinality({k \in AnswerPositions(h, j) :
                      h[k].role = "tool" /\ h[k].tool_call_id = id}) = 1

\* C2: whenever executeAgentLoop calls createChatCompletion, every assistant
\* message with tool_calls in the history has exactly one tool-role message
\* per call id after it and before any later user or assistant message.
C2_HistoryCallsAnswered == ProviderCallInFlight => ToolCallsAnswered(conversationHistory)

\* C3: no call to a tool of the breaking set is dispatched to the Tool
\* Runtime before the user has granted confirmation for its batch: by
\* 'Approve' in executeAgentLoop, by a granting reply to
\* continueWithPermission after processQuery.
C3_BreakingDispatchedAfterGrant ==
  \A c \in dispatched : c.name \in BREAKING_CHANGE_TOOLS => c \in granted

\* A breaking call was dispatched after the user's granting reply.
C3_BreakingCallDispatched ==
  /\ service = "OpenAIService"
  /\ \E c \in dispatched : c.name \in BREAKING_CHANGE_TOOLS /\ c \in granted

\* C4: an invocation of executeAgentLoop makes at most MAX_ITERATIONS calls
\* of createChatCompletion, whatever fails.
C4_CallsWithinCeiling == service = "AgentLoopService" => calls <= MAX_ITERATIONS

\* The tenth call of an invocation has failed and the loop is about to end.
C4_TenthCallFailed ==
  /\ service = "AgentLoopService"
  /\ pc = "loop"
  /\ calls = MAX_ITERATIONS
  /\ failedWith # Null
  /\ ~loopComplete

\* C5: once a createChatCompletion call has failed with a protocol
\* validation error, the invocation makes no further provider call and
\* its response is the fixed apology.
C5_ValidationErrorEndsInvocation ==
  (service = "AgentLoopService" /\ failedWith \in ValidationErrorMessages) =>
    /\ pc \in {"loop", "idle"}
    /\ pc = "loop" => forceExitLoop
    /\ pc = "idle" => outcome = "returned"
    /\ finalResponse = ApiErrorApology

\* The invocation has returned after a validation error on its first call.
C5_ReturnedAfterValidationError ==
  /\ service = "AgentLoopService"
  /\ pc = "idle"
  /\ outcome = "returned"
  /\ failedWith \in ValidationErrorMessages
  /\ finalResponse = ApiErrorApology

\* C6: after executeAgentLoop returns because a provider call raised a
\* protocol validation error, the history is exactly one system-role reset
\* notice.
C6_ResetLeavesOneNotice ==
  (service = "AgentLoopService" /\ pc = "idle" /\ outcome = "returned"
     /\ failedWith \in ValidationErrorMessages) =>
    /\ Len(conversationHistory) = 1
    /\ conversationHistory[1].role = "system"

\* The message m is a corrective notice describing err.
IsNoticeOf(m, err) == m.role = "user" /\ \A k \in 1..Len(err) : Includes(m.content, err[k])

\* C7: after a provider call failed with an error that is no validation
\* error and iterations remain, the loop stays running and the payload of
\* the next provider call carries a corrective notice describing the error.
C7_TransientErrorCarried ==
  (service = "AgentLoopService" /\ failedWith \in TransientErrorMessages) =>
    /\ (pc = "loop" /\ iterations < MAX_ITERATIONS) => (~loopComplete /\ ~forceExitLoop)
    /\ pc = "call" => \E i \in 1..Len(messages) : IsNoticeOf(messages[i], failedWith)

\* C8: when the provider returns a message with no tool calls, that message
\* is the last of the history, its content is the final response, and the
\* invocation makes no further provider call or tool dispatch.
C8_AnswerEndsInvocation ==
  (service = "AgentLoopService" /\ answered) =>
    /\ pc \in {"loop", "idle"}
    /\ pc = "idle" => outcome = "returned"
    /\ conversationHistory # <<>>
    /\ Last(conversationHistory).role = "assistant"
    /\ Last(conversationHistory).tool_calls = <<>>
    /\ finalResponse = Last(conversationHistory).content

\* The invocation has returned the provider's answer.
C8_ReturnedAnswer ==
  /\ service = "AgentLoopService"
  /\ answered
  /\ pc = "idle"
  /\ outcome = "returned"
  /\ finalResponse = <<"answer">>

\* Of the calls of a batch carrying 'done', only the done call is dispatched.
OnlyDoneDispatched(h) ==
  \A j \in 1..Len(h) :
    (CarriesToolCalls(h[j]) /\ HasDoneToolCall(h[j].tool_calls)) =>
      \A i \in 1..Len(h[j].tool_calls) :
        h[j].tool_calls[i] \in dispatched => h[j].tool_calls[i].name = "done"

C10_FailedDoneRetried ==
  (service = "AgentLoopService" /\ doneResult = "failed" /\ pc = "loop"
     /\ iterations < MAX_ITERATIONS) =>
    /\ ~loopComplete
    /\ lastError # Null

\* The assistant message at position j of h is followed directly by one
\* tool-role message per call, in the order of the calls, and no more.
BatchAnswered(h, j) ==
  LET tool_calls == h[j].tool_calls
  IN /\ j + Len(tool_calls) <= Len(h)
     /\ \A i \in 1..Len(tool_calls) :
          h[j + i].role = "tool" /\ h[j + i].tool_call_id = tool_calls[i].id
     /\ j + Len(tool_calls) < Len(h) => h[j + Len(tool_calls) + 1].role # "tool"

\* The step in which the loop ends its handling of a batch with no 'done'
\* and no breaking call.
RegularBatchHandled ==
  /\ pc \in {"tools", "pqTool"}
  /\ pc' \in {"loop", "pqLoop"}
  /\ ~HasBreaking(assistantMessage.tool_calls, BREAKING_CHANGE_TOOLS)

\* C11: for every batch of non-breaking tool calls the loop handles, exactly
\* one tool-role message per call is appended to the history, in the order
\* of the calls, also when a tool throws, whatever the text of its error.
C11_OneToolMessagePerCall ==
  [][RegularBatchHandled =>
       \E j \in 1..Len(conversationHistory') :
         /\ conversationHistory'[j] = assistantMessage
         /\ BatchAnswered(conversationHistory', j)]_vars

\* C12: the failure of a tool of a batch never by itself ends the loop: in
\* processQuery and executeAgentLoop the loop stays running while iterations
\* remain, and the payload of the next provider call carries a corrective
\* notice about the failure.
C12_ToolFailureKeepsLoopRunning ==
  toolFailure # Null =>
    /\ (pc = "loop" /\ iterations < MAX_ITERATIONS) => (~loopComplete /\ ~forceExitLoop)
    /\ (pc = "pqLoop" /\ iterations < PQ_MAX_ITERATIONS) => ~loopComplete
    /\ pc \in {"call", "pqCall"} =>
         \E i \in 1..Len(messages) : IsNoticeOf(messages[i], toolFailure)

\* In this step processQuery receives, at position j of the new history, a
\* batch with a breaking call and no 'done' call.
ReceivesBreakingBatchAt(j) ==
  /\ pc = "pqCall"
  /\ j > Len(conversationHistory)
  /\ CarriesCalls(conversationHistory'[j])
  /\ HasBreaking(conversationHistory'[j].tool_calls, BREAKING_CHANGE_TOOLS)
  /\ ~HasDoneToolCall(conversationHistory'[j].tool_calls)

\* The history h ends with the batch at j, one placeholder per call of the
\* batch, and one assistant message listing the breaking operations.
EndsWithPermissionRequest(h, j) ==
  LET tool_calls == h[j].tool_calls
  IN /\ Len(h) = j + Len(tool_calls) + 1
     /\ \A i \in 1..Len(tool_calls) : h[j + i] = ToolMessage(tool_calls[i].id, WaitingForPermission)
     /\ Last(h).role = "assistant"
     /\ Last(h).tool_calls = <<>>
     /\ \A i \in 1..Len(tool_calls) :
          tool_calls[i].name \in BREAKING_CHANGE_TOOLS => Includes(Last(h).content, tool_calls[i].name)

ReplyInFlight ==
  LET h == conversationHistory
  IN h[CHOOSE i \in 1..Len(h) : h[i].role = "user" /\ \A j \in (i + 1)..Len(h) : h[j].role # "user"].content

\* continueWithPermission is in flight with a reply that grants nothing.
DenyingCallInFlight ==
  /\ service = "OpenAIService"
  /\ pc \in {"cwpTool", "cwpCall"}
  /\ ReplyInFlight \notin GrantingResponses

IsPlaceholder(m) == m.role = "tool" /\ m.content = WaitingForPermission

\* C14: after continueWithPermission is called with a denying reply while
\* placeholders are pending, no 'Waiting for user permission...' tool-role
\* message is left in the history when the next provider call is made.
C14_DenialResolvesPlaceholders ==
  (DenyingCallInFlight /\ pc = "cwpCall") =>
    \A i \in 1..Len(conversationHistory) : ~IsPlaceholder(conversationHistory[i])

\* C15: when continueWithPermission is called with a reply that does not
\* grant permission, no tool is dispatched to the Tool Runtime during that
\* call, and the payload of its provider call carries the guidance that
\* permission was denied.
C15_DenialDispatchesNothing ==
  [][DenyingCallInFlight' =>
       /\ dispatched' = dispatched
       /\ pc' = "cwpCall" => \E i \in 1..Len(messages') : messages'[i] = DeniedGuidance]_vars

\* The provider call of a denied continueWithPermission is in flight while
\* the placeholders of the batch are pending.
C15_DeniedCallAwaitsProvider ==
  /\ DenyingCallInFlight
  /\ pc = "cwpCall"
  /\ \E i \in 1..Len(conversationHistory) : IsPlaceholder(conversationHistory[i])
  /\ \E i \in 1..Len(messages) : messages[i] = DeniedGuidance
  /\ DispatchedCalls(LastAssistantWithTools(conversationHistory).tool_calls) \cap dispatched = {}

\* The call whose tool continueWithPermission awaits.
AwaitedCall == assistantMessage.tool_calls[toolIndex]

\* h2 is h1 with the content of the message at k replaced, and nothing else.
OnlyContentChangedAt(h1, h2, k) ==
  /\ Len(h2) = Len(h1)
  /\ \A i \in 1..Len(h1) : i # k => h2[i] = h1[i]
  /\ h2[k].role = h1[k].role
  /\ h2[k].tool_call_id = h1[k].tool_call_id
  /\ h2[k].tool_calls = h1[k].tool_calls

C17_DispatchedAtMostOnce == service = "OpenAIService" => redispatched = {}

\* C18: the truncation run by addToConversationHistory never removes a
\* tool-role message while keeping the assistant message that carries its
\* call, nor that assistant message while keeping the tool-role message:
\* every tool-role message of the history has its assistant message before it.
C18_TruncationLeavesNoOrphan ==
  \A i \in 1..Len(conversationHistory) :
    conversationHistory[i].role = "tool" => HasMatchingToolCall(conversationHistory, i)

\* The messages the services may append next to the history h: a user
\* message, an assistant answer, the result of a call of the latest batch.
NextMessages(h) ==
  {UserMessage(<<"query">>), AssistantMessage(<<"answer">>, <<>>)}
  \cup (IF HasAssistantWithTools(h)
        THEN {ToolMessage(c.id, <<"output">>) :
                c \in DispatchedCalls(LastAssistantWithTools(h).tool_calls)}
        ELSE {})

\* How many messages addToConversationHistory(h, m) removes.
RemovedBy(h, m) == Len(h) + 1 - Len(addToConversationHistory(h, m))

\* C19: whenever addToConversationHistory removes messages, the removed
\* messages are a contiguous prefix of the history, the survivors keep
\* their order, and the oldest surviving message has role user.
C19_RemovesPrefixUpToUser ==
  \A m \in NextMessages(conversationHistory) :
    LET full == Append(conversationHistory, m)
        survivors == addToConversationHistory(conversationHistory, m)
        k == RemovedBy(conversationHistory, m)
    IN /\ k >= 0
       /\ survivors = SubSeq(full, k + 1, Len(full))
       /\ k > 0 => survivors[1].role = "user"

\* The history is one that the next append truncates.
C19_NextAppendTruncates ==
  \E m \in NextMessages(conversationHistory) : RemovedBy(conversationHistory, m) > 0

\* A cut of h at the 0-based index i is valid: the message there has role
\* user and at least half of maxHistoryLength messages are left.
ValidCut(h, i) ==
  /\ i >= 1
  /\ i < Len(h)
  /\ h[i + 1].role = "user"
  /\ Len(h) - i >= maxHistoryLength \div 2

\* C20: after every addToConversationHistory, a history still longer than
\* maxHistoryLength has no valid cut; whenever a valid cut exists the append
\* brings the history within maxHistoryLength.
C20_OverlongOnlyWithoutValidCut ==
  Len(conversationHistory) > maxHistoryLength =>
    ~\E i \in 1..Len(conversationHistory) : ValidCut(conversationHistory, i)

\* A tool-role message whose tool_call_id matches no tool call of an earlier
\* assistant message.
Orphan(h, i) ==
  /\ h[i].role = "tool"
  /\ \A j \in 1..(i - 1) : \A k \in 1..Len(h[j].tool_calls) :
        h[j].role = "assistant" => h[j].tool_calls[k].id # h[i].tool_call_id

Survivors(h) == {i \in 1..Len(h) : ~Orphan(h, i)}

\* s is h without its orphans: the other messages, unchanged, in their order.
IsWithoutOrphans(h, s) ==
  /\ Len(s) = Cardinality(Survivors(h))
  /\ \E f \in [1..Len(s) -> Survivors(h)] :
        /\ \A k \in 1..(Len(s) - 1) : f[k] < f[k + 1]
        /\ \A k \in 1..Len(s) : s[k] = h[f[k]]

SanitizeStep == service = "ConversationService" /\ pc = "idle" /\ pc' = "sanitized"

C22_NoExceptionPropagates ==
  [][pc # "idle" /\ pc' = "idle" => outcome' = "returned"]_vars

\* String.includes for a text of several fragments.
ContainsText(text, part) ==
  \E k \in 0..(Len(text) - Len(part)) : SubSeq(text, k + 1, k + Len(part)) = part

\* executeAgentLoop returns after MAX_ITERATIONS iterations without completing.
ExhaustedExit ==
  /\ service = "AgentLoopService"
  /\ pc = "loop" /\ pc' = "idle"
  /\ ~loopComplete
  /\ iterations = MAX_ITERATIONS

\* C23: when executeAgentLoop exhausts MAX_ITERATIONS without completing, the
\* returned text is not empty; it contains the message of the most recently
\* recorded error when one was recorded (the error of the final iteration's
\* provider call or tool, when that iteration failed), and is the generic
\* retry text when none was.
C23_ExhaustionCitesLastError ==
  [][ExhaustedExit =>
       /\ outcome' = "returned"
       /\ finalResponse' # <<>>
       /\ lastError # Null => ContainsText(finalResponse', lastError)
       /\ failedWith # Null => ContainsText(finalResponse', failedWith)
       /\ toolFailure # Null => ContainsText(finalResponse', toolFailure)
       /\ lastError = Null =>
            ContainsText(finalResponse', <<"Please try again with a clearer or simpler query.">>)]_vars

\* Ten iterations passed without an error and without completion, and the
\* generic retry text was returned.
C23_ExhaustedWithoutError ==
  /\ service = "AgentLoopService"
  /\ pc = "idle"
  /\ outcome = "returned"
  /\ nextId > MAX_ITERATIONS
  /\ ContainsText(finalResponse, <<"Please try again with a clearer or simpler query.">>)

\* C24: at most one loop invocation is in flight on the conversation
\* history: an invocation is entered, and appends to the history, only when
\* no other is suspended at an await.
C24_OneInvocationInFlight ==
  [][inFlight' > inFlight => inFlight = 0 /\ conversationHistory' # conversationHistory]_vars

\* The payload carries a corrective error notice.
HasErrorNotice(payload) ==
  \E i \in 1..Len(payload) :
    /\ payload[i].role = "user"
    /\ payload[i].content # <<>>
    /\ payload[i].content[1] = "There was an error in the previous step: "

\* An iteration builds the head of its payload.
PayloadBuilt == pc \in {"loop", "pqLoop"} /\ pc' \in {"call", "summarize", "pqCall", "pqSummarize"}

\* C25: a corrective error notice is single-use: a payload carries a notice
\* only when an error was recorded after the previous payload of the
\* invocation was built.
C25_NoticeIsSingleUse ==
  [][PayloadBuilt /\ HasErrorNotice(messages') => unreported]_vars

\* A handler clears the history because the provider call it awaited raised
\* a protocol validation error.
ClearsOnValidationError ==
  /\ pc \in {"call", "stream", "pqCall"}
  /\ failedWith' # Null
  /\ IsValidationError(failedWith')
  /\ conversationHistory # <<>>
  /\ conversationHistory' = <<>>

\* C26: on every path that clears the conversation history in response to a
\* protocol validation error, sanitize is invoked on the history before the
\* clear.
C26_SanitizedBeforeClear ==
  [][ClearsOnValidationError =>
       sanitizedCount' = <<Len(conversationHistory) - Cardinality(Survivors(conversationHistory))>>]_vars

\* The user approves the batch executeAgentLoop asked confirmation for.
ApprovalStep ==
  /\ service = "AgentLoopService"
  /\ pc = "confirm" /\ pc' = "loop"
  /\ DispatchedCalls(assistantMessage.tool_calls) \subseteq granted'

\* C27: in executeAgentLoop, when the user approves a batch that required
\* confirmation, every call of the batch is dispatched to the Tool Runtime
\* and its result is in the history as a tool-role message before the next
\* provider call.
C27_ApprovedBatchDispatched ==
  [][ApprovalStep =>
       \A i \in 1..Len(assistantMessage.tool_calls) :
         /\ assistantMessage.tool_calls[i] \in dispatched'
         /\ \E k \in 1..Len(conversationHistory') :
               /\ conversationHistory'[k].role = "tool"
               /\ conversationHistory'[k].tool_call_id = assistantMessage.tool_calls[i].id]_vars

\* executeAgentLoop is called and ends at once: the key validation failed.
KeyValidationFails ==
  /\ service = "AgentLoopService"
  /\ pc = "idle" /\ pc' = "idle"
  /\ exchanges' # exchanges

\* C28: when the API-key validation fails, executeAgentLoop raises an error
\* before the loop starts: the history is exactly as before the call, and
\* there is no provider call, no tool dispatch and no confirmation prompt.
C28_InvalidKeyLeavesHistory ==
  [][KeyValidationFails =>
       /\ outcome' = "threw"
       /\ conversationHistory' = conversationHistory
       /\ calls' = 0
       /\ dispatched' = dispatched
       /\ granted' = granted]_vars

\* A call with an invalid key has raised its error on a conversation that
\* already holds messages.
C28_KeyErrorOnLiveConversation ==
  /\ service = "AgentLoopService"
  /\ pc = "idle"
  /\ outcome = "threw"
  /\ Len(conversationHistory) > 1

\* The chunks received with one index, in arrival order, and the position of
\* the first of them.
ChunksOfIndex(index) == SelectSeq(received, LAMBDA chunk : chunk.index = index)
FirstChunkOf(index) ==
  CHOOSE i \in 1..Len(received) :
    received[i].index = index /\ \A j \in 1..(i - 1) : received[j].index # index

\* The name fragments and the argument fragments that a sequence of chunks
\* carries, in arrival order.
NameFragments(chunks) ==
  LET carrying == SelectSeq(chunks, LAMBDA chunk : chunk.name # "")
  IN [i \in 1..Len(carrying) |-> carrying[i].name]
ArgumentFragments(chunks) ==
  LET carrying == SelectSeq(chunks, LAMBDA chunk : chunk.arguments # "")
  IN [i \in 1..Len(carrying) |-> carrying[i].arguments]

\* C29: processToolCallChunk merges by stream index: the buffer holds one
\* entry per distinct index received, in order of first appearance; the name
\* and the arguments of an entry are the fragments, in arrival order, of the
\* chunks with its index; its id is the id of the first chunk of its index,
\* or the generated one, whatever ids later chunks carry.  The buffer is a
\* local of the invocation, so the statement is about a running invocation.
C29_BufferMergedByIndex ==
  LET tool_calls == assistantMessageBuffer.tool_calls
  IN pc # "idle" =>
     /\ {tool_calls[i].index : i \in 1..Len(tool_calls)} =
          {received[i].index : i \in 1..Len(received)}
     /\ \A i, j \in 1..Len(tool_calls) :
          i < j => /\ tool_calls[i].index # tool_calls[j].index
                   /\ FirstChunkOf(tool_calls[i].index) < FirstChunkOf(tool_calls[j].index)
     /\ \A i \in 1..Len(tool_calls) :
          LET chunks == ChunksOfIndex(tool_calls[i].index)
          IN /\ tool_calls[i].name = NameFragments(chunks)
             /\ tool_calls[i].arguments = ArgumentFragments(chunks)
             /\ tool_calls[i].id = IF chunks[1].id # NoId THEN chunks[1].id
                                    ELSE GeneratedId(i - 1)

\* Two calls are buffered, the chunks of the first came before and after a
\* chunk of the second, and the late chunk carried another id.
C29_InterleavedChunksMerged ==
  LET tool_calls == assistantMessageBuffer.tool_calls
  IN /\ pc # "idle"
     /\ Len(tool_calls) = 2
     /\ \E i, j, k \in 1..Len(received) :
          /\ i < j /\ j < k
          /\ received[i].index = tool_calls[1].index
          /\ received[j].index = tool_calls[2].index
          /\ received[k].index = tool_calls[1].index
          /\ received[k].id \notin {NoId, tool_calls[1].id}

\* The fragments of an argument payload make a complete JSON object: every
\* brace that was opened is closed.
SyntacticallyComplete(arguments) ==
  /\ arguments # <<>>
  /\ arguments[1] # "}"
  /\ Cardinality({i \in 1..Len(arguments) : arguments[i] = "{"}) =
       Cardinality({i \in 1..Len(arguments) : arguments[i] = "}"})

\* Every buffered call has a name and a complete argument payload.
BufferComplete ==
  \A i \in 1..Len(assistantMessageBuffer.tool_calls) :
    /\ assistantMessageBuffer.tool_calls[i].name # <<>>
    /\ SyntacticallyComplete(assistantMessageBuffer.tool_calls[i].arguments)

\* The streaming loop starts the processing of the buffered calls, or a call
\* of the buffer is dispatched.
StreamProcessingStep ==
  /\ service = "AgentLoopService"
  /\ \/ pc = "stream" /\ pc' \in {"streamTools", "streamDone"}
     \/ pc \in {"streamTools", "streamDone", "streamConfirm"} /\ dispatched' # dispatched

\* C30: executeStreamingAgentLoop starts tool-call processing, and dispatches
\* a tool call, only when every buffered call has a non-empty name and a
\* syntactically complete argument payload; with a truncated payload in the
\* buffer at the end of the stream nothing is dispatched.
C30_OnlyCompleteCallsProcessed ==
  [][StreamProcessingStep => BufferComplete]_vars

\* executeStreamingAgentLoop adds the results of a batch without a done call
\* to the history.
StreamBatchAppended ==
  /\ service = "AgentLoopService"
  /\ pc \in {"streamTools", "streamConfirm"}
  /\ conversationHistory' # conversationHistory

\* C31: the streaming variant is a loop like executeAgentLoop: after it has
\* appended the results of a batch without a done call the invocation goes on
\* to a further provider call, and a provider failure or a denial inside the
\* invocation ends, as in executeAgentLoop, with a returned text.
C31_StreamingFeedsResultsBack ==
  [][/\ StreamBatchAppended => pc' # "idle"
     /\ (service = "AgentLoopService" /\ pc \in {"stream", "streamTools", "streamConfirm"}
           /\ pc' = "idle") => outcome' = "returned"]_vars

\* The position where the n-th exchange from the end of h starts: the n-th
\* user message counted from the end, or the first message when h holds
\* fewer user messages.
ExchangeStart(h, n) ==
  LET users == {i \in 1..Len(h) : h[i].role = "user"}
  IN IF Cardinality(users) < n THEN 1
     ELSE CHOOSE u \in users : Cardinality({v \in users : v >= u}) = n

\* The summarization branch of executeAgentLoop has built its payload.
SummarizedPayloadBuilt ==
  /\ service = "AgentLoopService"
  /\ pc = "summarize" /\ pc' = "call"

\* C32: a payload in which a summary stands for the older history ends with
\* the most recent 2 exchanges of the history, complete and unmodified, and the
\* part kept after the summary starts at an exchange boundary (a user message).
C32_LastTwoExchangesKept ==
  [][SummarizedPayloadBuilt =>
       LET h == conversationHistory'
           kept == SubSeq(h, ExchangeStart(h, 2), Len(h))
           n == Len(messages')
       IN /\ n >= 2 + Len(kept)
          /\ SubSeq(messages', n - Len(kept) + 1, n) = kept
          /\ messages'[3].role = "user"]_vars

\* The number of messages of h with the given role, as the text shows it.
CountOf(h, role) ==
  ToString(Cardinality({i \in 1..Len(h) : h[i].role = role}))

\* C33: summarizeConversationHistory never fails the request: when its
\* provider call fails, the summary is a text that states the numbers of user,
\* assistant and tool messages of the summarized history, and the iteration
\* goes on to its provider call.
C33_SummaryFallsBackToCounts ==
  [][SummarizedPayloadBuilt =>
       LET summarized == conversationHistory
           text == messages'[2].content
       IN /\ outcome' = outcome
          /\ text # <<"summary">> =>
               /\ Len(text) = 7
               /\ text[1] = "Conversation summary (fallback): "
               /\ text[2] = CountOf(summarized, "user")
               /\ text[3] = " user messages, "
               /\ text[4] = CountOf(summarized, "assistant")
               /\ text[5] = " assistant messages, "
               /\ text[6] = CountOf(summarized, "tool")]_vars

\* The provider call of a summary failed on a history with tool messages, and
\* the iteration awaits its own provider call with the fallback summary.
C33_FallbackSummaryInPayload ==
  /\ service = "AgentLoopService"
  /\ pc = "call"
  /\ Len(messages) > 2
  /\ messages[2].role = "assistant"
  /\ Includes(messages[2].content, "Conversation summary (fallback): ")
  /\ messages[2].content[6] # "0"

\* C34: every file path found in the summarized messages is in the file
\* reference list of the summary, and that list accompanies the summary
\* message in the payload executeAgentLoop sends to the provider.
C34_FileReferencesInPayload ==
  [][SummarizedPayloadBuilt =>
       \A path \in fileReferences(conversationHistory) :
          /\ "file_references" \in DOMAIN messages'[2]
          /\ path \in messages'[2].file_references]_vars

\* processQuery, or the continueWithPermission that handed over to it, returns.
ProcessQueryReturned ==
  /\ service = "OpenAIService"
  /\ pc # "idle" /\ pc' = "idle"
  /\ outcome' = "returned"

\* C35: processQuery never returns an empty response: when its loop ends at
\* MAX_ITERATIONS without a final answer, the returned text is non-empty.
C35_GivingUpReturnsText ==
  [][ProcessQueryReturned => finalResponse' # <<>>]_vars

\* A summary is awaited by either service.
SummaryAwaited == pc \in {"summarize", "pqSummarize"}

FinalAnswerReturned ==
  /\ service = "AgentLoopService"
  /\ pc = "loop" /\ pc' = "idle"
  /\ loopComplete
  /\ outcome' = "returned"

\* C38: when executeAgentLoop returns a final answer, every tool call of
\* every assistant message of the history has its tool-role answer, also when
\* the last batch held a done call together with other calls.
C38_ReturnedHistoryIsValid ==
  [][FinalAnswerReturned => ToolCallsAnswered(conversationHistory')]_vars

\* processQuery or continueWithPermission awaits its provider call.
PQProviderCallInFlight ==
  /\ service = "OpenAIService"
  /\ pc \in {"pqCall", "cwpCall"}

\* C39: in every payload processQuery or continueWithPermission sends to the
\* provider, each assistant message with tool_calls is followed, before any
\* user or assistant message, by one tool-role message per call id.
C39_PQPayloadCallsAnswered ==
  PQProviderCallInFlight => ToolCallsAnswered(messages)

\* Every message of the history h is a message of the history g.
AllKeptIn(h, g) == \A i \in 1..Len(h) : \E j \in 1..Len(g) : g[j] = h[i]

\* C40: when invocations on the same ConversationManager interleave at await
\* points, the restore that ends a summarization loses no message: a message
\* that is in the history while the summary is awaited, such as one another
\* invocation appended meanwhile, is in the history after the restore, unless
\* the restored history is long enough to be truncated.
C40_RestoreKeepsConcurrentAppends ==
  [][(SummarizedPayloadBuilt /\ Len(originalHistory) <= maxHistoryLength) =>
       AllKeptIn(conversationHistory, conversationHistory')]_vars

====
